---------------------------- MODULE Spec2Model ----------------------------
(***************************************************************************)
(* TweeterSentiment: the batch sentiment-processing pipeline.              *)
(*                                                                         *)
(* Three classifier clients are modelled:                                  *)
(*   "backend" : ClaudeSentimentAnalysisService of src/lib/claude-service  *)
(*               (posts {text} to the /api/claude proxy of the backend),   *)
(*   "hf"      : SentimentAnalysisService (HuggingFace, primary and        *)
(*               fallback model),                                          *)
(*   "direct"  : ClaudeSentimentAnalysisService of the services file       *)
(*               (Anthropic message format, CORS proxy as second path).    *)
(*                                                                         *)
(* Numbers in [0,1] (scores, confidences) are kept in thousandths.         *)
(***************************************************************************)
EXTENDS Integers, Sequences, FiniteSets, TLC

VARIABLES
    HUGGINGFACE_API_URL,   \* module-level preferred endpoint
    env,                   \* which API keys are configured
    call,                  \* the classify call of the session that ran last
    ncalls,                \* classify calls started so far
    switched,              \* the clients of which a call went to its secondary backend
    warmUps,               \* warm-up probes run so far
    batch,                 \* the analyzeSentimentsBatch call in progress
    rawTweets,             \* the raw_tweets table
    processedTweets,       \* the processed_tweets table
    runs,                  \* the runs of processTweetsDirectly
    timezoneOffset,        \* minutes the machine's local time is ahead of UTC
    filtered,              \* the date filter applied last and what it kept
    cleaned,               \* a text and what cleanTweetContent made of it, applied repeatedly
    indexPage,             \* the Index page: its processing flag, its timers and polls
    parsed,                \* a date text and what parseTweetDate returned for it
    clearResult,           \* what the last call of clearAllTweets returned
    processing,            \* the state of the useProcessing hook
    rawPage                \* the last call of getRawTweets and what it settled to

classifyVars == <<call, ncalls, switched, warmUps>>

batchVars == <<batch>>

filterVars ==
    <<timezoneOffset, filtered, cleaned, indexPage, parsed, rawPage, clearResult, processing>>

pipeVars == <<rawTweets, processedTweets, runs, filterVars>>

vars == <<HUGGINGFACE_API_URL, env, classifyVars, batchVars, pipeVars>>

-----------------------------------------------------------------------------
(* Bounds of the model *)

MaxCalls == 2
MaxWarmUps == 1
MaxTexts == 11
MaxFlakyTexts == 4
MaxRaw == 2
MaxRuns == 2
MaxPieces == 4
MaxCleanings == 2
MaxSessions == 1
MaxInFlight == 1

-----------------------------------------------------------------------------
(* Program constants *)

MAX_RETRIES == 2
maxRetries == 2
CONCURRENCY == 3
concurrency == 3
POLLING_INTERVAL == 10000
POLLING_TIMEOUT == 180000
batchSize == 10

API_ENDPOINTS_LIST ==
    <<"api-inference/xlm-roberta", "corsproxy/xlm-roberta",
      "codetabs/xlm-roberta", "thingproxy/xlm-roberta">>

FALLBACK_ENDPOINTS ==
    <<"api-inference/roberta-latest", "corsproxy/roberta-latest",
      "codetabs/roberta-latest", "thingproxy/roberta-latest">>

HUGGINGFACE_FALLBACK_URL == FALLBACK_ENDPOINTS[1]

BACKEND_URL == "/api/claude"

CLAUDE_PRODUCTION == "/api/claude#messages"

ProxyUrl == "allorigins/raw?url=/api/claude"

validSentiments ==
    <<"very_negative", "negative", "neutral", "positive", "very_positive">>

Range(s) == {s[k] : k \in DOMAIN s}

Clients == {"backend", "hf", "direct"}

-----------------------------------------------------------------------------
(* JavaScript helpers *)

\* Math.round(x * 100) / 100 on a number kept in thousandths
Round2(x) == ((x + 5) \div 10) * 10

\* String.prototype.toUpperCase on the strings a model may answer with
toUpperCase(s) ==
    CASE s = "very_negative" -> "VERY_NEGATIVE"
      [] s = "negative"      -> "NEGATIVE"
      [] s = "neutral"       -> "NEUTRAL"
      [] s = "positive"      -> "POSITIVE"
      [] s = "very_positive" -> "VERY_POSITIVE"
      [] s = "mixed"         -> "MIXED"
      [] s = "Positive"      -> "POSITIVE"
      [] OTHER               -> s

\* String.prototype.toLowerCase on the labels a model may answer with
toLowerCase(s) ==
    CASE s = "LABEL_0"  -> "label_0"
      [] s = "LABEL_1"  -> "label_1"
      [] s = "LABEL_2"  -> "label_2"
      [] s = "POSITIVE" -> "positive"
      [] s = "Negative" -> "negative"
      [] s = "NEUTRAL"  -> "neutral"
      [] OTHER          -> s

\* The substrings, among those the code searches for, that an atomic piece of
\* text contains (String.prototype.includes is case-sensitive).
Needles(s) ==
    CASE s = "Failed to fetch"                  -> {"Failed to fetch"}
      [] s = "NetworkError when attempting to fetch resource."
                                                -> {"NetworkError"}
      [] s = "net::ERR_NETWORK_CHANGED"         -> {"ERR_NETWORK_CHANGED"}
      [] s = "signal timed out"                 -> {"signal timed out"}
      [] s = "The operation timed out."         -> {}
      [] s = "404"                              -> {"404"}
      [] s = "Not Found"                        -> {}
      [] s = "Gateway Timeout"                  -> {}
      [] s = "model is overloaded"              -> {"model"}
      [] s = "Fallback model error"             -> {"model"}
      [] s = "positive"                         -> {"pos", "positive"}
      [] s = "negative"                         -> {"neg", "negative"}
      [] s = "neutral"                          -> {"neu", "neutral"}
      [] s = "pos"                              -> {"pos"}
      [] s = "neg"                              -> {"neg"}
      [] s = "neu"                              -> {"neu"}
      [] OTHER                                  -> {}

\* An Error object: its class, its name and its message, the message as the
\* pieces it was built from (a template string `${a}: ${b} ${c}`).
Err(cls, name, pieces) == [cls |-> cls, name |-> name, message |-> pieces]

NoError == Err("none", "none", <<>>)

includes(message, needle) == \E k \in DOMAIN message : needle \in Needles(message[k])

statusCode(status) == IF status = 404 THEN "404" ELSE "status"

HttpError(prefix, resp) ==
    Err("Error", "Error", <<prefix, statusCode(resp.status), resp.statusText>>)

-----------------------------------------------------------------------------
(* Values exchanged with the remote services *)

Undefined == "<undefined>"

\* SentimentAnalysisResult
Result(sentiment, confidence, sentimentValue, label, score) ==
    [sentiment |-> sentiment, confidence |-> confidence,
     sentimentValue |-> sentimentValue, label |-> label, score |-> score]

NoResult == Result("", 0, 0, "", 0)

\* A response body: a JSON value (or text that is no JSON), by its shape.
Body(shape, sentiment, confidence, sentimentValue, label, score, items) ==
    [shape |-> shape, sentiment |-> sentiment, confidence |-> confidence,
     sentimentValue |-> sentimentValue, label |-> label, score |-> score,
     items |-> items]

NoBody == Body("none", "", 0, 0, "", 0, <<>>)

ErrorBody == Body("error", "", 0, 0, "", 0, <<>>)

HtmlBody == Body("html", "", 0, 0, "", 0, <<>>)

\* What one fetch() settles to: a rejection with an Error, or a Response.
Reject(err) ==
    [kind |-> "reject", err |-> err, status |-> 0, statusText |-> "", body |-> NoBody]

Response(status, statusText, body) ==
    [kind |-> "response", err |-> NoError, status |-> status,
     statusText |-> statusText, body |-> body]

ok(resp) == resp.status >= 200 /\ resp.status <= 299

\* http.STATUS_CODES of the backend's runtime
ReasonPhrase(status) ==
    CASE status = 200 -> "OK"
      [] status = 400 -> "Bad Request"
      [] status = 404 -> "Not Found"
      [] status = 500 -> "Internal Server Error"
      [] status = 504 -> "Gateway Timeout"
      [] OTHER        -> "Error"

\* The outcome of a try block: a returned value or a thrown error.
Returned(r) == [ok |-> TRUE, result |-> r, error |-> NoError]

Thrown(e) == [ok |-> FALSE, result |-> NoResult, error |-> e]

NetworkFailure == Reject(Err("TypeError", "TypeError", <<"Failed to fetch">>))

TimeoutFailure == Reject(Err("DOMException", "TimeoutError", <<"signal timed out">>))

\* fetch() failures: the network (as the supported browsers word it) and the
\* AbortSignal.timeout of the request
FetchFailures ==
    { NetworkFailure,
      Reject(Err("TypeError", "TypeError",
                 <<"NetworkError when attempting to fetch resource.">>)),
      TimeoutFailure,
      Reject(Err("DOMException", "TimeoutError", <<"The operation timed out.">>)) }

\* The answers of the Anthropic messages API: a failed request, a non-2xx
\* status, or a message whose text holds (or does not hold) a JSON object.
ClaudeSentiments == Range(validSentiments) \cup {"mixed", Undefined}

ClaudeConfidences == {0, 900, 954}

ClaudeAnswers ==
    { Response(200, "OK", Body("json", s, c, 0, "", 0, <<>>)) :
          s \in ClaudeSentiments, c \in ClaudeConfidences }
    \cup { Response(200, "OK", Body(sh, "", 0, 0, "", 0, <<>>)) :
          sh \in {"nocontent", "nojson", "badjson"} }
    \cup { Response(st, ReasonPhrase(st), ErrorBody) : st \in {404, 500, 504} }

AnthropicOutcomes == FetchFailures \cup ClaudeAnswers

-----------------------------------------------------------------------------
(* Backend proxy: app.post('/api/claude') *)

\* switch (sentiment) { case ...: sentimentValue = ...; default: sentimentValue = 0 }
sentimentValueOf(sentiment) ==
    CASE sentiment = "very_negative" -> -2
      [] sentiment = "negative"      -> -1
      [] sentiment = "neutral"       -> 0
      [] sentiment = "positive"      -> 1
      [] sentiment = "very_positive" -> 2
      [] OTHER                       -> 0

\* The sentiment the handler reports. The validation assigns 'neutral' to
\* sentimentData.sentiment; the constant `sentiment` read afterwards keeps the
\* model's string.
ReportedSentiment(sentiment) == sentiment

InternalServerError == Response(500, ReasonPhrase(500), ErrorBody)

ClaudeProxy(text, keyConfigured, upstream) ==
    IF text = "" THEN Response(400, ReasonPhrase(400), ErrorBody)
    ELSE IF ~keyConfigured THEN InternalServerError
    ELSE IF upstream.kind = "reject" THEN InternalServerError
    ELSE IF ~ok(upstream)
         THEN Response(upstream.status, ReasonPhrase(upstream.status), ErrorBody)
    ELSE IF upstream.body.shape # "json" THEN InternalServerError
    ELSE LET sentiment == upstream.body.sentiment
             confidence == IF upstream.body.confidence = 0 THEN 500
                           ELSE upstream.body.confidence
         IN  IF sentiment = Undefined
             THEN InternalServerError   \* sentiment.toUpperCase() throws
             ELSE Response(200, ReasonPhrase(200),
                      Body("result", ReportedSentiment(sentiment), Round2(confidence),
                           sentimentValueOf(sentiment),
                           "CLAUDE_" \o toUpperCase(sentiment), confidence, <<>>))

-----------------------------------------------------------------------------
(* The catch blocks' classification of an error *)

isNetworkError(error) ==
    /\ error.cls = "TypeError"
    /\ \/ includes(error.message, "Failed to fetch")
       \/ includes(error.message, "ERR_NETWORK_CHANGED")
       \/ includes(error.message, "NetworkError")

isTimeoutError(error) ==
    /\ error.cls # "none"
    /\ \/ error.name = "TimeoutError"
       \/ includes(error.message, "signal timed out")
       \/ includes(error.message, "timeout")

isCorsError(error) ==
    /\ error.cls = "TypeError"
    /\ \/ includes(error.message, "Failed to fetch")
       \/ includes(error.message, "CORS")
       \/ includes(error.message, "Access-Control-Allow-Origin")

isModelError(error) ==
    /\ error.cls # "none"
    /\ \/ includes(error.message, "404")
       \/ includes(error.message, "model")

\* variant: one retry more than the budget
ShouldRetryOnceMore(error, retryCount, limit) ==
    (isNetworkError(error) \/ isTimeoutError(error)) /\ retryCount <= limit

\* variant: gives up one retry early
ShouldRetryOnceLess(error, retryCount, limit) ==
    (isNetworkError(error) \/ isTimeoutError(error)) /\ retryCount < limit - 1

\* (isNetworkError || isTimeoutError) && retryCount < maxRetries
ShouldRetry(error, retryCount, limit) ==
    (isNetworkError(error) \/ isTimeoutError(error)) /\ retryCount < limit

SyntaxError == Err("SyntaxError", "SyntaxError", <<"Unexpected token in JSON">>)

UndefinedProperty ==
    Err("TypeError", "TypeError", <<"Cannot read properties of undefined">>)

NeutralFallback(label) == Result("neutral", 500, 0, label, 500)

-----------------------------------------------------------------------------
(* claude-service.ts: ClaudeSentimentAnalysisService.analyzeSentiment *)

\* the try block, from the settled fetch on
BackendTry(o) ==
    IF o.kind = "reject" THEN Thrown(o.err)
    ELSE IF o.body.shape = "html" THEN Thrown(SyntaxError)    \* response.json()
    ELSE IF ~ok(o) THEN Thrown(HttpError("Backend API error", o))
    ELSE Returned(Result(o.body.sentiment, o.body.confidence,
                         o.body.sentimentValue, o.body.label, o.body.score))

BackendCatch(error, retryCount) ==
    IF ShouldRetry(error, retryCount, MAX_RETRIES)
    THEN [next |-> "retry", result |-> NoResult]
    ELSE [next |-> "return", result |-> NeutralFallback("CLAUDE_NEU_FALLBACK")]

-----------------------------------------------------------------------------
(* services: SentimentAnalysisService (HuggingFace) *)

Item(label, intent, score, confidence) ==
    [label |-> label, intent |-> intent, score |-> score, confidence |-> confidence]

\* sentimentData.sort((a, b) => b.score - a.score)[0]: the sort is stable, so of
\* the elements with the highest score the first in array order comes first.
TopByScore(items) ==
    LET best == CHOOSE k \in DOMAIN items :
                   /\ \A m \in DOMAIN items : items[m].score <= items[k].score
                   /\ \A m \in DOMAIN items :
                          items[m].score = items[k].score => k <= m
    IN  items[best]

has(s, needle) == needle \in Needles(s)

\* the mapping with the thresholds taken the other way: above 0.8, from 0.72
MapPrimaryLabelOffByOne(topResult) ==
    LET label == IF topResult.label # "" THEN topResult.label ELSE topResult.intent
        score == IF topResult.score # 0 THEN topResult.score ELSE topResult.confidence
        labelLower == toLowerCase(label)
        sv == IF labelLower = "label_2" \/ has(labelLower, "pos")
                    \/ has(labelLower, "positive")
              THEN IF score > 800 THEN <<"very_positive", 2>> ELSE <<"positive", 1>>
              ELSE IF labelLower = "label_0" \/ has(labelLower, "neg")
                    \/ has(labelLower, "negative")
              THEN IF score > 800 THEN <<"very_negative", -2>> ELSE <<"negative", -1>>
              ELSE IF labelLower = "label_1" \/ has(labelLower, "neu")
                    \/ has(labelLower, "neutral")
              THEN IF score >= 720 THEN <<"positive", 1>> ELSE <<"neutral", 0>>
              ELSE <<"neutral", 0>>
    IN  Result(sv[1], Round2(score), sv[2], label, score)

\* lines 328-372: label and score to the 5-level scale (primary model)
MapPrimaryLabel(topResult) ==
    LET label == IF topResult.label # "" THEN topResult.label ELSE topResult.intent
        score == IF topResult.score # 0 THEN topResult.score ELSE topResult.confidence
        labelLower == toLowerCase(label)
        sv == IF labelLower = "label_2" \/ has(labelLower, "pos")
                    \/ has(labelLower, "positive")
              THEN IF score >= 800 THEN <<"very_positive", 2>> ELSE <<"positive", 1>>
              ELSE IF labelLower = "label_0" \/ has(labelLower, "neg")
                    \/ has(labelLower, "negative")
              THEN IF score >= 800 THEN <<"very_negative", -2>> ELSE <<"negative", -1>>
              ELSE IF labelLower = "label_1" \/ has(labelLower, "neu")
                    \/ has(labelLower, "neutral")
              THEN IF score > 720 THEN <<"positive", 1>> ELSE <<"neutral", 0>>
              ELSE <<"neutral", 0>>
    IN  Result(sv[1], Round2(score), sv[2], label, score)

\* lines 465-496: the same for the fallback model (no LABEL_n codes)
MapFallbackLabel(topResult) ==
    LET label == IF topResult.label # "" THEN topResult.label ELSE topResult.intent
        score == IF topResult.score # 0 THEN topResult.score ELSE topResult.confidence
        labelLower == toLowerCase(label)
        sv == IF has(labelLower, "pos") \/ has(labelLower, "positive")
              THEN IF score >= 800 THEN <<"very_positive", 2>> ELSE <<"positive", 1>>
              ELSE IF has(labelLower, "neg") \/ has(labelLower, "negative")
              THEN IF score >= 800 THEN <<"very_negative", -2>> ELSE <<"negative", -1>>
              ELSE IF has(labelLower, "neu") \/ has(labelLower, "neutral")
              THEN IF score > 720 THEN <<"positive", 1>> ELSE <<"neutral", 0>>
              ELSE <<"neutral", 0>>
    IN  Result(sv[1], Round2(score), sv[2], label, score)

\* lines 311-326 and 451-463: the element of the response that is interpreted.
\* tag "top" carries it; tag "format" and "undefined" are the two ways to fail.
SelectTopResult(body) ==
    CASE body.shape = "nested" ->
             IF body.items = <<>> THEN [tag |-> "undefined", item |-> Item("", "", 0, 0)]
             ELSE [tag |-> "top", item |-> TopByScore(body.items)]
      [] body.shape = "flat"   -> [tag |-> "top", item |-> body.items[1]]
      [] body.shape = "object" -> [tag |-> "top", item |-> body.items[1]]
      [] body.shape = "emptyArray" -> [tag |-> "undefined", item |-> Item("", "", 0, 0)]
      [] OTHER -> [tag |-> "format", item |-> Item("", "", 0, 0)]

HFTry(o) ==
    IF o.kind = "reject" THEN Thrown(o.err)
    ELSE IF ~ok(o) THEN Thrown(HttpError("HuggingFace API error", o))
    ELSE IF o.body.shape = "html" THEN Thrown(SyntaxError)
    ELSE LET top == SelectTopResult(o.body)
         IN  CASE top.tag = "top" -> Returned(MapPrimaryLabel(top.item))
               [] top.tag = "undefined" -> Thrown(UndefinedProperty)
               [] OTHER -> Thrown(Err("Error", "Error",
                               <<"Unexpected response format from HuggingFace API">>))

HFCatch(error, retryCount) ==
    IF ShouldRetry(error, retryCount, maxRetries)
    THEN [next |-> "retry", result |-> NoResult]
    ELSE IF isModelError(error)
    THEN [next |-> "secondary", result |-> NoResult]
    ELSE [next |-> "return", result |-> NeutralFallback("NEU_FALLBACK")]

\* analyzeSentimentWithFallback, from the settled fetch on: never throws
HFFallbackSettled(o) ==
    IF o.kind = "reject" THEN NeutralFallback("NEU_FALLBACK")
    ELSE IF ~ok(o) THEN NeutralFallback("NEU_FALLBACK")
    ELSE IF o.body.shape = "html" THEN NeutralFallback("NEU_FALLBACK")
    ELSE LET top == SelectTopResult(o.body)
         IN  IF top.tag = "top" THEN MapFallbackLabel(top.item)
             ELSE NeutralFallback("NEU_FALLBACK")

-----------------------------------------------------------------------------
(* services: ClaudeSentimentAnalysisService (messages API, CORS proxy) *)

\* lines 638-700 and 785-846: the message text to a result
ParseClaudeMessage(o, httpPrefix, labelPrefix) ==
    IF o.kind = "reject" THEN Thrown(o.err)
    ELSE IF ~ok(o) THEN Thrown(HttpError(httpPrefix, o))
    ELSE IF o.body.shape = "html" THEN Thrown(SyntaxError)
    ELSE IF o.body.shape = "nocontent"
         THEN Thrown(Err("Error", "Error", <<"No content in Claude response">>))
    ELSE IF o.body.shape # "json"
         THEN Thrown(Err("Error", "Error", <<"Invalid JSON response from Claude">>))
    ELSE LET sentiment == o.body.sentiment
             confidence == IF o.body.confidence = 0 THEN 500 ELSE o.body.confidence
         IN  IF sentiment = Undefined THEN Thrown(UndefinedProperty)
             ELSE Returned(Result(sentiment, Round2(confidence),
                                  sentimentValueOf(sentiment),
                                  labelPrefix \o toUpperCase(sentiment), confidence))

DirectTry(o) == ParseClaudeMessage(o, "Claude API error", "CLAUDE_")

DirectCatch(error, retryCount) ==
    IF isCorsError(error) /\ retryCount = 0
    THEN [next |-> "secondary", result |-> NoResult]
    ELSE IF ShouldRetry(error, retryCount, MAX_RETRIES)
    THEN [next |-> "retry", result |-> NoResult]
    ELSE [next |-> "return", result |-> NeutralFallback("CLAUDE_NEU_FALLBACK")]

\* analyzeSentimentWithProxy, from the settled fetch on: never throws
ProxySettled(o) ==
    LET t == ParseClaudeMessage(o, "Proxy API error", "CLAUDE_PROXY_")
    IN  IF t.ok THEN t.result ELSE NeutralFallback("CLAUDE_PROXY_FALLBACK")

-----------------------------------------------------------------------------
(* One classify call as a process: it is suspended at each await *)

HFOutcomes ==
    FetchFailures
    \cup { Response(404, "Not Found", ErrorBody),
           Response(500, "Internal Server Error", ErrorBody),
           Response(503, "model is overloaded", ErrorBody),
           Response(200, "OK", HtmlBody),
           Response(200, "OK", Body("scalar", "", 0, 0, "", 0, <<>>)),
           Response(200, "OK", Body("emptyArray", "", 0, 0, "", 0, <<>>)),
           Response(200, "OK", Body("nested", "", 0, 0, "", 0, <<>>)) }
    \cup { Response(200, "OK", Body("object", "", 0, 0, "", 0, <<Item(l, "", sc, 0)>>)) :
              l \in {"LABEL_0", "LABEL_1", "LABEL_2", "POSITIVE", "mixed"},
              sc \in {500, 725, 954} }
    \cup { Response(200, "OK", Body("object", "", 0, 0, "", 0, <<Item(l, "", 800, 0)>>)) :
              l \in {"LABEL_0", "LABEL_2"} }
    \cup { Response(200, "OK", Body("object", "", 0, 0, "", 0,
                                    <<Item("LABEL_1", "", 720, 0)>>)) }
    \cup { Response(200, "OK", Body("object", "", 0, 0, "", 0, <<Item("", "neg", 0, 800)>>)) }
    \cup { Response(200, "OK", Body(sh, "", 0, 0, "", 0,
                  <<Item("LABEL_1", "", 500, 0), Item(l, "", 900, 0),
                    Item("LABEL_2", "", 900, 0)>>)) :
              sh \in {"nested", "flat"}, l \in {"LABEL_0", "Negative"} }

\* What the client of the backend sees: the link to the backend fails, a
\* gateway in front of it answers with a page, or the handler answers.
BackendOutcomes(text) ==
    FetchFailures
    \cup { Response(502, "Bad Gateway", HtmlBody), Response(200, "OK", HtmlBody) }
    \cup { ClaudeProxy(text, env.backendKey, u) : u \in AnthropicOutcomes }

DirectOutcomes == AnthropicOutcomes \cup { Response(200, "OK", HtmlBody) }

PrimaryOutcomes(c) ==
    CASE c.client = "backend" -> BackendOutcomes(c.text)
      [] c.client = "hf"      -> HFOutcomes
      [] OTHER                -> DirectOutcomes

SecondaryOutcomes(c) == IF c.client = "hf" THEN HFOutcomes ELSE DirectOutcomes

NoOutcome == Reject(NoError)

IdleCall ==
    [client |-> "none", text |-> "", retryCount |-> 0, pc |-> "idle",
     result |-> NoResult, error |-> NoError, reqs |-> <<>>, last |-> NoOutcome]

PrimaryUrl(client, hint) ==
    CASE client = "backend" -> BACKEND_URL
      [] client = "hf"      -> hint
      [] OTHER              -> CLAUDE_PRODUCTION

SecondaryUrl(client) == IF client = "hf" THEN HUGGINGFACE_FALLBACK_URL ELSE ProxyUrl

keyConfigured(client, keys) ==
    CASE client = "hf"     -> keys.huggingfaceKey
      [] client = "direct" -> keys.anthropicKey
      [] OTHER             -> TRUE

\* analyzeSentiment(text, retryCount) up to its first await: the key check of
\* the services' clients, then the fetch to the primary endpoint.
Attempt(c, keys, hint) ==
    IF ~keyConfigured(c.client, keys)
    THEN [c EXCEPT !.pc = "thrown",
                   !.error = Err("Error", "Error", <<"API key not configured">>)]
    ELSE [c EXCEPT !.pc = "primary",
                   !.reqs = Append(@, PrimaryUrl(c.client, hint))]

analyzeSentiment(client, text, keys, hint) ==
    Attempt([IdleCall EXCEPT !.client = client, !.text = text], keys, hint)

PrimaryTry(c, o) ==
    CASE c.client = "backend" -> BackendTry(o)
      [] c.client = "hf"      -> HFTry(o)
      [] OTHER                -> DirectTry(o)

PrimaryCatch(c, error) ==
    CASE c.client = "backend" -> BackendCatch(error, c.retryCount)
      [] c.client = "hf"      -> HFCatch(error, c.retryCount)
      [] OTHER                -> DirectCatch(error, c.retryCount)

\* the fetch to the primary endpoint settles with o: the rest of the try
\* block, and the catch block up to its await or return
PrimarySettled(c, o) ==
    LET t == PrimaryTry(c, o)
        d == PrimaryCatch(c, t.error)
        seen == [c EXCEPT !.last = o]
    IN  IF t.ok THEN [seen EXCEPT !.pc = "done", !.result = t.result]
        ELSE CASE d.next = "retry" -> [seen EXCEPT !.pc = "backoff"]
               [] d.next = "secondary" ->
                      [seen EXCEPT !.pc = "secondary",
                                   !.reqs = Append(@, SecondaryUrl(c.client))]
               [] OTHER -> [seen EXCEPT !.pc = "done", !.result = d.result]

\* variant: the retry is entered with the same retry count
BackoffElapsedUncounted(c, keys, hint) == Attempt(c, keys, hint)

\* the backoff timer fires: return this.analyzeSentiment(text, retryCount + 1)
BackoffElapsed(c, keys, hint) ==
    Attempt([c EXCEPT !.retryCount = @ + 1], keys, hint)

SecondarySettled(c, o) ==
    [c EXCEPT !.last = o, !.pc = "done",
              !.result = IF c.client = "hf" THEN HFFallbackSettled(o)
                         ELSE ProxySettled(o)]

settled(c) == c.pc \in {"idle", "done", "thrown"}

-----------------------------------------------------------------------------
(* warmUpModel: the only writer of HUGGINGFACE_API_URL *)

\* findWorkingEndpoint: the first endpoint whose probe answers 2xx, or null
findWorkingEndpoint(endpoints, probes) ==
    IF \E k \in DOMAIN endpoints : probes[k]
    THEN endpoints[CHOOSE k \in DOMAIN endpoints :
                      probes[k] /\ \A m \in 1..(k - 1) : ~probes[m]]
    ELSE "null"

warmUpModel(hint, probes, warmOk) ==
    LET workingEndpoint == findWorkingEndpoint(API_ENDPOINTS_LIST, probes)
    IN  IF workingEndpoint # "null" /\ warmOk THEN workingEndpoint ELSE hint

-----------------------------------------------------------------------------
(* analyzeSentimentsBatch: the three batch orchestrators *)

\* variant: a slice one element short
sliceShort(s, from, to) ==
    LET hi == IF to - 1 < Len(s) THEN to - 1 ELSE Len(s)
    IN  IF from >= hi THEN <<>> ELSE SubSeq(s, from + 1, hi)

\* Array.prototype.slice(from, to) with 0-based bounds
slice(s, from, to) ==
    LET hi == IF to < Len(s) THEN to ELSE Len(s)
    IN  IF from >= hi THEN <<>> ELSE SubSeq(s, from + 1, hi)

\* A promise of the chunk: the classify call behind it while it is pending,
\* then its value; `at` numbers the promises of a chunk as they settle.
Promise(text, c, state, value, at) ==
    [text |-> text, call |-> c, state |-> state, value |-> value, at |-> at]

\* The async wrapper around one text's classify call. The services'
\* orchestrators catch what the call throws and put the neutral fallback in its
\* place; claude-service.ts returns the call's promise as it is.
ItemSettled(client, c) ==
    IF c.pc = "done" THEN [state |-> "fulfilled", value |-> c.result]
    ELSE CASE client = "hf" ->
                  [state |-> "fulfilled", value |-> NeutralFallback("NEU_FALLBACK")]
           [] client = "direct" ->
                  [state |-> "fulfilled", value |-> NeutralFallback("CLAUDE_NEU_FALLBACK")]
           [] OTHER -> [state |-> "rejected", value |-> NoResult]

IdleBatch ==
    [client |-> "none", texts |-> <<>>, transport |-> "none", pc |-> "idle",
     i |-> 0, j |-> 0, promises |-> <<>>, nsettled |-> 0,
     batchResults |-> <<>>, results |-> <<>>,
     batchFrom |-> <<>>, from |-> <<>>, delays |-> 0, reordered |-> FALSE]

\* One promise after a step of its call: settled when the call has returned
\* or thrown, pending otherwise.
Stepped(b, k, c) ==
    IF settled(c)
    THEN LET r == ItemSettled(b.client, c)
         IN  [b EXCEPT !.promises[k] =
                          Promise(@.text, IdleCall, r.state, r.value, b.nsettled + 1),
                       !.nsettled = @ + 1]
    ELSE [b EXCEPT !.promises[k].call = c]

RECURSIVE DispatchFrom(_, _, _, _, _)
\* chunk.map(async (text, index) => ...): each call runs to its first await.
\* The callback's log line reads text.substring(0, 50) before anything else,
\* outside every try: on an element that is no string it throws a TypeError
\* and the callback's promise is rejected.
DispatchFrom(b, chunk, k, keys, hint) ==
    IF k > Len(chunk) THEN b
    ELSE IF chunk[k] = Undefined
    THEN DispatchFrom([b EXCEPT !.promises =
                            Append(@, Promise(chunk[k], IdleCall, "rejected",
                                              NoResult, b.nsettled + 1)),
                                !.nsettled = @ + 1],
                      chunk, k + 1, keys, hint)
    ELSE LET c == analyzeSentiment(b.client, chunk[k], keys, hint)
             pending == [b EXCEPT !.promises =
                            Append(@, Promise(chunk[k], c, "pending", NoResult, 0))]
         IN  DispatchFrom(Stepped(pending, k, c), chunk, k + 1, keys, hint)

\* variant: the whole window is dispatched at once
CurrentChunkWide(b) ==
    IF b.client = "hf"
    THEN slice(slice(b.texts, b.i, b.i + batchSize), b.j, b.j + batchSize)
    ELSE slice(b.texts, b.i, b.i + CONCURRENCY + 1)

\* the chunk the loop is at: texts.slice(i, i + CONCURRENCY), and for the
\* HuggingFace orchestrator batch.slice(j, j + concurrency) of
\* batch = texts.slice(i, i + batchSize)
CurrentChunk(b) ==
    IF b.client = "hf"
    THEN slice(slice(b.texts, b.i, b.i + batchSize), b.j, b.j + concurrency)
    ELSE slice(b.texts, b.i, b.i + CONCURRENCY)

Dispatch(b, keys, hint) ==
    DispatchFrom([b EXCEPT !.promises = <<>>, !.nsettled = 0, !.pc = "awaiting"],
                 CurrentChunk(b), 1, keys, hint)

\* the loop from its head: dispatch the next chunk, or return the results
LoopHead(b, keys, hint) ==
    IF b.i < Len(b.texts) THEN Dispatch(b, keys, hint) ELSE [b EXCEPT !.pc = "done"]

\* variant: the values in the order the promises settled
PromiseAllAsSettled(promises) ==
    [n \in DOMAIN promises |->
        promises[CHOOSE k \in DOMAIN promises : promises[k].at = n]]

\* await Promise.all(chunkPromises): the promises' values in the order of the
\* array, whichever settled first
PromiseAll(promises) == promises

Values(ps) == [k \in DOMAIN ps |-> ps[k].value]

Sources(ps) == [k \in DOMAIN ps |-> ps[k].text]

\* some promise of the chunk settled before one that precedes it in the array
SettledOutOfOrder(promises) ==
    \E k, m \in DOMAIN promises : k < m /\ promises[k].at > promises[m].at

\* variant: the pacing delay is taken after the last chunk as well
ChunkDoneAlwaysPacing(b) ==
    LET got == PromiseAll(b.promises)
        cleared == [b EXCEPT !.promises = <<>>, !.nsettled = 0,
                             !.reordered = @ \/ SettledOutOfOrder(b.promises)]
    IN  IF \E k \in DOMAIN b.promises : b.promises[k].state = "rejected"
        THEN [cleared EXCEPT !.pc = "rejected"]
        ELSE IF b.client # "hf"
        THEN LET pushed == [cleared EXCEPT !.results = @ \o Values(got),
                                           !.from = @ \o Sources(got)]
             IN  IF b.i + CONCURRENCY <= Len(b.texts)
                 THEN [pushed EXCEPT !.pc = "chunkDelay", !.delays = @ + 1]
                 ELSE [pushed EXCEPT !.pc = "done"]
        ELSE LET pushed == [cleared EXCEPT !.batchResults = @ \o Values(got),
                                           !.batchFrom = @ \o Sources(got)]
                 window == slice(b.texts, b.i, b.i + batchSize)
             IN  IF b.j + concurrency <= Len(window)
                 THEN [pushed EXCEPT !.pc = "chunkDelay", !.delays = @ + 1]
                 ELSE LET whole == [pushed EXCEPT
                                       !.results = @ \o pushed.batchResults,
                                       !.from = @ \o pushed.batchFrom,
                                       !.batchResults = <<>>, !.batchFrom = <<>>]
                      IN  IF b.i + batchSize < Len(b.texts)
                          THEN [whole EXCEPT !.pc = "batchDelay", !.delays = @ + 1]
                          ELSE [whole EXCEPT !.pc = "done"]

\* the chunk has settled: push its results, then pace or leave the loop
ChunkDone(b) ==
    LET got == PromiseAll(b.promises)
        cleared == [b EXCEPT !.promises = <<>>, !.nsettled = 0,
                             !.reordered = @ \/ SettledOutOfOrder(b.promises)]
    IN  IF \E k \in DOMAIN b.promises : b.promises[k].state = "rejected"
        THEN [cleared EXCEPT !.pc = "rejected"]
        ELSE IF b.client # "hf"
        THEN LET pushed == [cleared EXCEPT !.results = @ \o Values(got),
                                           !.from = @ \o Sources(got)]
             IN  IF b.i + CONCURRENCY < Len(b.texts)
                 THEN [pushed EXCEPT !.pc = "chunkDelay", !.delays = @ + 1]
                 ELSE [pushed EXCEPT !.pc = "done"]
        ELSE LET pushed == [cleared EXCEPT !.batchResults = @ \o Values(got),
                                           !.batchFrom = @ \o Sources(got)]
                 window == slice(b.texts, b.i, b.i + batchSize)
             IN  IF b.j + concurrency < Len(window)
                 THEN [pushed EXCEPT !.pc = "chunkDelay", !.delays = @ + 1]
                 ELSE LET whole == [pushed EXCEPT
                                       !.results = @ \o pushed.batchResults,
                                       !.from = @ \o pushed.batchFrom,
                                       !.batchResults = <<>>, !.batchFrom = <<>>]
                      IN  IF b.i + batchSize < Len(b.texts)
                          THEN [whole EXCEPT !.pc = "batchDelay", !.delays = @ + 1]
                          ELSE [whole EXCEPT !.pc = "done"]

\* the pacing timer fires: the loop's increment, then the next chunk
AfterDelay(b, keys, hint) ==
    IF b.pc = "batchDelay"
    THEN Dispatch([b EXCEPT !.i = @ + batchSize, !.j = 0], keys, hint)
    ELSE IF b.client = "hf"
    THEN Dispatch([b EXCEPT !.j = @ + concurrency], keys, hint)
    ELSE Dispatch([b EXCEPT !.i = @ + CONCURRENCY], keys, hint)

-----------------------------------------------------------------------------
(* Storage and DataProcessingService.processTweetsDirectly *)

\* A date text, by its shape: 'Month Day, Year at HH:MM AM/PM' ...
AtText(monthName, day, year, hour, minute, ampm) ==
    [shape |-> "at", monthName |-> monthName, day |-> day, year |-> year,
     hour |-> hour, minute |-> minute, ampm |-> ampm]

\* ... an ISO text 'YYYY-MM-DDTHH:MM:00', with the zone designator Z or none
IsoText(year, month, day, hour, minute, zone) ==
    [shape |-> "iso", year |-> year, month |-> month, day |-> day,
     hour |-> hour, minute |-> minute, zone |-> zone]

\* ... and what is no date: a missing column, '', 'not a date', a number
NoDate == [shape |-> "undefined"]

EmptyText == [shape |-> "empty"]

NotADate == [shape |-> "text"]

NumberDate == [shape |-> "number"]

\* the Date and Content columns of the raw records of a run
Dates ==
    {NoDate} \cup { AtText("June", 15, year, 10, 30, "AM") : year \in {2023, 2024, 2025} }

\* A text is the sequence of its characters: 'a' and '@a'.
Contents == {<<"a">>, <<"@", "a">>}

RawTweet(tweet_id, Date, Content) ==
    [tweet_id |-> tweet_id, Date |-> Date, Content |-> Content]

\* MONTH_NUMBERS[monthName.toLowerCase()] || null, null as 0
getMonthNumber(monthName) ==
    CASE monthName = "January" -> 1
      [] monthName = "February" -> 2
      [] monthName = "March" -> 3
      [] monthName = "April" -> 4
      [] monthName = "May" -> 5
      [] monthName = "June" -> 6
      [] monthName = "July" -> 7
      [] monthName = "August" -> 8
      [] monthName = "September" -> 9
      [] monthName = "October" -> 10
      [] monthName = "November" -> 11
      [] monthName = "December" -> 12
      [] OTHER -> 0

isLeapYear(year) == (year % 4 = 0 /\ year % 100 # 0) \/ year % 400 = 0

daysInMonth(month, year) ==
    CASE month \in {4, 6, 9, 11} -> 30
      [] month = 2 -> IF isLeapYear(year) THEN 29 ELSE 28
      [] OTHER -> 31

\* days from January 1, 2020 to January 1 of the year
RECURSIVE daysBeforeYear(_)
daysBeforeYear(year) ==
    IF year <= 2020 THEN 0
    ELSE daysBeforeYear(year - 1) + (IF isLeapYear(year - 1) THEN 366 ELSE 365)

RECURSIVE daysBeforeMonth(_, _)
daysBeforeMonth(month, year) ==
    IF month <= 1 THEN 0
    ELSE daysBeforeMonth(month - 1, year) + daysInMonth(month - 1, year)

\* Date.UTC(...): the instant of a calendar date and time in UTC, in minutes
\* since January 1, 2020
UTC(year, month, day, hour, minute) ==
    ((daysBeforeYear(year) + daysBeforeMonth(month, year) + day - 1) * 24 + hour) * 60
        + minute

\* an ISO string, as the instant it denotes
Instant(time) == [time |-> time]

null == [null |-> TRUE]

\* variant: twelve is added to every PM hour and to no AM hour
hour24Naive(hour, ampm) ==
    IF ampm = "PM" THEN hour + 12 ELSE hour

\* the hour of a 12-hour clock on the 24-hour clock
hour24(hour, ampm) ==
    IF ampm = "PM" /\ hour # 12 THEN hour + 12
    ELSE IF ampm = "AM" /\ hour = 12 THEN 0
    ELSE hour

\* new Date(text).toISOString() for a text that is not of the first shape:
\* an ISO text without a zone is local time, anything else is no date
DirectParse(dateStr) ==
    IF dateStr.shape = "iso"
    THEN LET utc == UTC(dateStr.year, dateStr.month, dateStr.day, dateStr.hour,
                        dateStr.minute)
         IN  Instant(IF dateStr.zone = "Z" THEN utc ELSE utc - timezoneOffset)
    ELSE null

\* parseTweetDate(dateStr): null for a missing or empty text and for a value
\* whose trim() raises (caught); the first shape is rebuilt as an ISO string
\* with Z; everything else goes to new Date(text)
parseTweetDate(dateStr) ==
    IF dateStr.shape \in {"undefined", "empty", "number"} THEN null
    ELSE IF dateStr.shape = "at" /\ getMonthNumber(dateStr.monthName) # 0
    THEN Instant(UTC(dateStr.year, getMonthNumber(dateStr.monthName), dateStr.day,
                     hour24(dateStr.hour, dateStr.ampm), dateStr.minute))
    ELSE DirectParse(dateStr)

\* new Date(iso).getFullYear(): the year of the instant in local time
getFullYear(iso) ==
    CHOOSE year \in 2020..2030 :
        /\ UTC(year, 1, 1, 0, 0) <= iso.time + timezoneOffset
        /\ iso.time + timezoneOffset < UTC(year + 1, 1, 1, 0, 0)

isRecent(tweet) ==
    /\ tweet.Date.shape \notin {"undefined", "empty"}
    /\ parseTweetDate(tweet.Date) # null
    /\ getFullYear(parseTweetDate(tweet.Date)) >= 2024

filterRecentTweets(tweets) == SelectSeq(tweets, isRecent)

\* filterTweetsByYear(tweets, year)
filterTweetsByYear(tweets, year) ==
    LET isMatch(tweet) ==
            /\ tweet.Date.shape \notin {"undefined", "empty"}
            /\ parseTweetDate(tweet.Date) # null
            /\ getFullYear(parseTweetDate(tweet.Date)) = year
    IN  SelectSeq(tweets, isMatch)

\* the characters of the texts of the model
Whitespace == {" ", "\n"}

WordCharacters == {"a", "h", "t", "p", "s"}

Punctuation == {".", "!", "?"}

Characters == Whitespace \cup WordCharacters \cup Punctuation \cup {"@", "#", ":", "/"}

\* the index after the longest run of characters of the set that starts at i
RECURSIVE RunEnd(_, _, _)
RunEnd(str, i, set) ==
    IF i <= Len(str) /\ str[i] \in set THEN RunEnd(str, i + 1, set) ELSE i

RECURSIVE trimEnd(_)
trimEnd(str) ==
    IF Len(str) > 0 /\ str[Len(str)] \in Whitespace
    THEN trimEnd(SubSeq(str, 1, Len(str) - 1))
    ELSE str

\* String.prototype.trim
trim(str) == trimEnd(SubSeq(str, RunEnd(str, 1, Whitespace), Len(str)))

\* str.replace(/[set]{min,}/g, with), from index i on: every longest run of
\* at least min characters of the set is replaced
RECURSIVE ReplaceRuns(_, _, _, _, _)
ReplaceRuns(str, i, set, min, with) ==
    IF i > Len(str) THEN <<>>
    ELSE LET e == RunEnd(str, i, set)
         IN  IF e - i >= min THEN with \o ReplaceRuns(str, e, set, min, with)
             ELSE IF e > i THEN SubSeq(str, i, e - 1) \o ReplaceRuns(str, e, set, min, with)
             ELSE <<str[i]>> \o ReplaceRuns(str, i + 1, set, min, with)

\* the text at index i starts with the prefix
StartsWith(str, i, prefix) ==
    /\ i + Len(prefix) - 1 <= Len(str)
    /\ SubSeq(str, i, i + Len(prefix) - 1) = prefix

\* str.replace(/(prefix)[set]+/g, ''), from index i on: a prefix followed by
\* at least one character of the set is removed with the longest such run
RECURSIVE RemovePrefixed(_, _, _, _)
RemovePrefixed(str, i, prefixes, set) ==
    IF i > Len(str) THEN <<>>
    ELSE LET matching == {prefix \in prefixes :
                             /\ StartsWith(str, i, prefix)
                             /\ RunEnd(str, i + Len(prefix), set) > i + Len(prefix)}
         IN  IF matching # {}
             THEN LET prefix == CHOOSE prefix \in matching : TRUE
                  IN  RemovePrefixed(str, RunEnd(str, i + Len(prefix), set), prefixes, set)
             ELSE <<str[i]>> \o RemovePrefixed(str, i + 1, prefixes, set)

\* https?:\/\/
Schemes == {<<"h", "t", "t", "p", ":", "/", "/">>, <<"h", "t", "t", "p", "s", ":", "/", "/">>}

\* REGEX_PATTERNS.WHITESPACE /\s+/g replaced by ' '
ReplaceWhitespace(str) == ReplaceRuns(str, 1, Whitespace, 1, <<" ">>)

\* REGEX_PATTERNS.URL /https?:\/\/[^\s]+/g replaced by ''
RemoveUrls(str) == RemovePrefixed(str, 1, Schemes, Characters \ Whitespace)

\* REGEX_PATTERNS.MENTION /@\w+/g replaced by ''
RemoveMentions(str) == RemovePrefixed(str, 1, {<<"@">>}, WordCharacters)

\* REGEX_PATTERNS.HASHTAG /#/g replaced by ''
RemoveHashtags(str) == ReplaceRuns(str, 1, {"#"}, 1, <<>>)

\* REGEX_PATTERNS.EXCESSIVE_PUNCTUATION /[.!?]{2,}/g replaced by '.'
ReplacePunctuation(str) == ReplaceRuns(str, 1, Punctuation, 2, <<".">>)

\* String.prototype.substring(0, end)
substring(str, end) == SubSeq(str, 1, IF end < Len(str) THEN end ELSE Len(str))

\* cleanTweetContent(content)
cleanTweetContent(content) ==
    IF content = <<>> THEN <<>>
    ELSE trim(substring(ReplacePunctuation(RemoveHashtags(RemoveMentions(RemoveUrls(
             ReplaceWhitespace(trim(content)))))), 500))

Cleaned(tweet) ==
    [tweet_id |-> tweet.tweet_id, Date |-> tweet.Date, Content |-> tweet.Content,
     cleanedContent |-> cleanTweetContent(tweet.Content)]

hasContent(tweet) == Len(tweet.cleanedContent) > 0

\* the cleaned records with the empty ones kept
CleanedTweetsUnfiltered(filteredTweets) ==
    [k \in DOMAIN filteredTweets |-> Cleaned(filteredTweets[k])]

\* filteredTweets.map(...).filter(tweet => tweet.cleanedContent.length > 0)
CleanedTweets(filteredTweets) ==
    SelectSeq([k \in DOMAIN filteredTweets |-> Cleaned(filteredTweets[k])], hasContent)

\* The queries of getRawTweets that the store answers with an error.
QueryErrors ==
    { {}, {"basic"}, {"basic", "minimal", "ids"},
      {"basic", "minimal", "ids", "full", "noFilter"} }

\* TweetService.getRawTweets(limit, offset): four strategies, the first three
\* with .limit(limit), the last without; it throws when the last query fails
getRawTweets(table, limit, errs) ==
    LET page == slice(table, 0, limit)
    IN  IF "basic" \notin errs /\ Len(page) > 0
        THEN [ok |-> TRUE, rows |-> page, error |-> NoError]
        ELSE IF "minimal" \notin errs /\ Len(page) > 0
        THEN [ok |-> TRUE, rows |-> page, error |-> NoError]
        ELSE IF "ids" \notin errs /\ Len(page) > 0 /\ "full" \notin errs
        THEN [ok |-> TRUE, rows |-> page, error |-> NoError]
        ELSE IF "noFilter" \in errs
        THEN [ok |-> FALSE, rows |-> <<>>,
              error |-> Err("Error", "AppError", <<"database error">>)]
        ELSE [ok |-> TRUE, rows |-> table, error |-> NoError]

\* ProcessingProgress
Progress(stage, progress, error) ==
    [stage |-> stage, progress |-> progress, error |-> error]

\* a row of processed_tweets as the run prepares it; the store assigns the id
ProcessedTweet(tweet, sentimentResult) ==
    [original_tweet_id |-> tweet.tweet_id,
     content |-> tweet.Content,
     processed_content |-> tweet.cleanedContent,
     sentiment |-> sentimentResult.sentiment,
     confidence |-> sentimentResult.confidence,
     tweet_date |-> IF tweet.Date.shape \notin {"undefined", "empty"}
                    THEN tweet.Date ELSE [shape |-> "now"]]

\* the row as processTweets prepares it: the date is parsed
ProcessedTweetParsed(tweet, sentimentResult) ==
    [ProcessedTweet(tweet, sentimentResult) EXCEPT
        !.tweet_date = IF parseTweetDate(tweet.Date) # null
                       THEN parseTweetDate(tweet.Date) ELSE [shape |-> "now"]]

Stored(row, id) ==
    [id |-> id, original_tweet_id |-> row.original_tweet_id,
     content |-> row.content, processed_content |-> row.processed_content,
     sentiment |-> row.sentiment, confidence |-> row.confidence,
     tweet_date |-> row.tweet_date]

\* supabase.from(PROCESSED_TWEETS).insert(rows): one bulk append
insert(table, rows) ==
    table \o [k \in DOMAIN rows |-> Stored(rows[k], Len(table) + k)]

\* no text cleaned yet
NotCleaned == [content |-> <<>>, results |-> <<>>]

\* The Index page before any click: isProcessing, the handlers suspended at
\* an await, the timers pending, the polling started by each trigger and the
\* calls of loadRealStats() in flight.
IdlePage ==
    [isProcessing |-> FALSE, triggering |-> 0, fetches |-> 0, reprocessing |-> 0,
     reprocessed |-> 0, resetTimers |-> 0, sessions |-> <<>>, inFlight |-> 0,
     realStats |-> [null |-> TRUE], error |-> FALSE]

\* useProcessing(): the three useState cells at their initial values
useProcessing == [isProcessing |-> FALSE, progress |-> null, error |-> null]

\* The words determineErrorType looks for that a piece of a message holds,
\* the message taken in lower case.
Keywords(piece) ==
    CASE piece = "Failed to fetch"   -> {"fetch"}
      [] piece = "Backend API error" -> {"api"}
      [] OTHER                       -> {}

determineErrorType(error) ==
    LET words == UNION { Keywords(error.message[k]) : k \in DOMAIN error.message }
    IN  IF "network" \in Keywords(error.name) \/ words \cap {"fetch", "cors"} # {}
        THEN "NETWORK"
        ELSE IF words \cap {"api", "http", "status"} # {} THEN "API"
        ELSE IF words \cap {"database", "supabase", "sql"} # {} THEN "DATABASE"
        ELSE IF words \cap {"validation", "invalid", "required"} # {} THEN "VALIDATION"
        ELSE IF words \cap {"processing", "analysis", "sentiment"} # {} THEN "PROCESSING"
        ELSE "UNKNOWN"

\* errorHandler.handleError(error, context): an AppError for an Error, for a
\* string and for anything else
handleError(error, context) ==
    CASE error.cls = "string" ->
             [type |-> "UNKNOWN", message |-> error.message, context |-> context]
      [] error.cls = "undefined" ->
             [type |-> "UNKNOWN", message |-> <<"Unknown error occurred">>,
              context |-> context]
      [] OTHER ->
             [type |-> determineErrorType(error), message |-> error.message,
              context |-> context]

\* clearAllTweets not called yet
NotCleared == [called |-> FALSE, thrown |-> FALSE, success |-> FALSE, message |-> <<>>]

\* getRawTweets not called yet
NotFetched == [limit |-> 0, errs |-> {}, called |-> FALSE, ok |-> FALSE, rows |-> <<>>]

\* no date text parsed yet
NotParsed == [dateStr |-> [shape |-> "undefined"], called |-> FALSE, result |-> [null |-> TRUE]]

\* no filter applied yet
NotFiltered == [by |-> "none", year |-> 0, tweets |-> <<>>]

\* TweetService.getProcessingStats(): the two counts and their difference
getProcessingStats(raw, processed) ==
    [totalTweets |-> Len(raw),
     processedTweets |-> Len(processed),
     remainingTweets |-> Len(raw) - Len(processed)]

\* variant: the raw table is deleted first
clearAllTweetsRawFirst(raw, processed, processedError, rawError) ==
    IF rawError
    THEN [raw |-> raw, processed |-> processed, thrown |-> FALSE, success |-> FALSE,
          message |-> <<"Failed to clear raw tweets", "delete rejected">>]
    ELSE IF processedError
    THEN [raw |-> <<>>, processed |-> processed, thrown |-> FALSE, success |-> FALSE,
          message |-> <<"Failed to clear processed tweets", "delete rejected">>]
    ELSE [raw |-> <<>>, processed |-> <<>>, thrown |-> FALSE, success |-> TRUE,
          message |-> <<"All tweets cleared successfully - ready for end-to-end test!">>]

\* DataProcessingService.clearAllTweets(): the processed table is deleted
\* first, then the raw table; a rejected delete ends the operation in the
\* catch block, which returns success false with the error's message
clearAllTweets(raw, processed, processedError, rawError) ==
    IF processedError
    THEN [raw |-> raw, processed |-> processed, thrown |-> FALSE, success |-> FALSE,
          message |-> <<"Failed to clear processed tweets", "delete rejected">>]
    ELSE IF rawError
    THEN [raw |-> raw, processed |-> <<>>, thrown |-> FALSE, success |-> FALSE,
          message |-> <<"Failed to clear raw tweets", "delete rejected">>]
    ELSE [raw |-> <<>>, processed |-> <<>>, thrown |-> FALSE, success |-> TRUE,
          message |-> <<"All tweets cleared successfully - ready for end-to-end test!">>]

\* One run of processTweetsDirectly or of processTweets, suspended at its
\* awaits.
IdleRun ==
    [kind |-> "none", pc |-> "idle", cleanedTweets |-> <<>>, texts |-> <<>>,
     sentimentResults |-> <<>>,
     processedTweets |-> <<>>,
     notified |-> <<>>, inserts |-> 0, returned |-> <<>>, error |-> NoError]

onProgress(run, p) == [run EXCEPT !.notified = Append(@, p)]

\* What a run built and returned lives in the handler that awaited it
\* (`const processedTweets = await ...`); it is gone when the handler is
\* entered again, and what is left of the run is what the observer was told.
Released(run) ==
    IF run.pc \in {"returned", "thrown"}
    THEN [run EXCEPT !.pc = "released", !.cleanedTweets = <<>>, !.texts = <<>>,
                     !.sentimentResults = <<>>,
                     !.processedTweets = <<>>, !.returned = <<>>]
    ELSE run

\* the runs when the handler starts one more
Entered(all, r, started) ==
    [q \in DOMAIN all |-> IF q = r THEN started ELSE Released(all[q])]

\* up to `await TweetService.getRawTweets(1000, 0)`
RunStarted ==
    [onProgress(IdleRun, Progress("fetching", 10, Undefined)) EXCEPT
        !.kind = "processTweetsDirectly", !.pc = "fetching"]

\* processTweets(rawTweets, onProgress) up to
\* `await ...analyzeSentimentsBatch(texts)`
ProcessTweetsStarted(rows) ==
    LET run == [IdleRun EXCEPT !.kind = "processTweets"]
        filtering == onProgress(run, Progress("filtering", 10, Undefined))
        filteredTweets == filterTweetsByYear(rows, 2025)
    IN  IF Len(filteredTweets) = 0
        THEN [onProgress(filtering, Progress("completed", 100, Undefined))
                 EXCEPT !.pc = "returned"]
        ELSE LET cleaning == onProgress(filtering, Progress("filtering", 20, Undefined))
                 analyzing == onProgress(cleaning, Progress("analyzing", 30, Undefined))
             IN  [analyzing EXCEPT !.pc = "analyzing",
                                   !.cleanedTweets = CleanedTweets(filteredTweets),
                                   !.texts = [k \in DOMAIN CleanedTweets(filteredTweets) |->
                                       CleanedTweets(filteredTweets)[k].cleanedContent]]

\* from the fetch to `await ...analyzeSentimentsBatch(texts)`
RunFetched(run, fetched) ==
    IF ~fetched.ok THEN [run EXCEPT !.pc = "thrown", !.error = fetched.error]
    ELSE IF Len(fetched.rows) = 0
    THEN [onProgress(run, Progress("completed", 100, Undefined)) EXCEPT !.pc = "returned"]
    ELSE LET filtering == onProgress(run, Progress("filtering", 20, Undefined))
             filteredTweets == filterRecentTweets(fetched.rows)
         IN  IF Len(filteredTweets) = 0
             THEN [onProgress(filtering, Progress("completed", 100, Undefined))
                      EXCEPT !.pc = "returned"]
             ELSE LET cleaning == onProgress(filtering, Progress("filtering", 30, Undefined))
                      analyzing == onProgress(cleaning, Progress("analyzing", 40, Undefined))
                  IN  [analyzing EXCEPT !.pc = "analyzing",
                                        !.cleanedTweets = CleanedTweets(filteredTweets),
                                        !.texts = [k \in DOMAIN CleanedTweets(filteredTweets) |->
                                       CleanedTweets(filteredTweets)[k].cleanedContent]]

\* a run that reports storing before the second analyzing notification
RunAnalyzedStoringFirst(run, sentimentResults) ==
    LET storing == onProgress(run, Progress("storing", 90, Undefined))
        preparing ==
            onProgress(storing, Progress("analyzing",
                                         IF run.kind = "processTweets" THEN 70 ELSE 80,
                                         Undefined))
    IN  [preparing EXCEPT !.pc = "storing", !.inserts = @ + 1,
             !.sentimentResults = sentimentResults,
                          !.processedTweets =
                              [index \in DOMAIN run.cleanedTweets |->
                                  IF run.kind = "processTweets"
                                  THEN ProcessedTweetParsed(run.cleanedTweets[index],
                                                            sentimentResults[index])
                                  ELSE ProcessedTweet(run.cleanedTweets[index],
                                                      sentimentResults[index])]]

\* a run that gives up when a classification came back as the fallback
RunAnalyzedGivingUp(run, sentimentResults) ==
    IF \E index \in DOMAIN sentimentResults : sentimentResults[index].confidence = 500
    THEN [onProgress(run, Progress("error", 0, "Sentiment analysis failed")) EXCEPT
             !.pc = "thrown",
             !.error = Err("Error", "Error", <<"Sentiment analysis failed">>)]
    ELSE LET preparing ==
                 onProgress(run, Progress("analyzing",
                                          IF run.kind = "processTweets" THEN 70 ELSE 80,
                                          Undefined))
             storing == onProgress(preparing, Progress("storing", 90, Undefined))
         IN  [storing EXCEPT !.pc = "storing", !.inserts = @ + 1,
             !.sentimentResults = sentimentResults,
                             !.processedTweets =
                                 [index \in DOMAIN run.cleanedTweets |->
                                     IF run.kind = "processTweets"
                                     THEN ProcessedTweetParsed(run.cleanedTweets[index],
                                                               sentimentResults[index])
                                     ELSE ProcessedTweet(run.cleanedTweets[index],
                                                         sentimentResults[index])]]

\* a run that pairs the cleaned records with the results in reverse order
RunAnalyzedCrossed(run, sentimentResults) ==
    LET preparing ==
            onProgress(run, Progress("analyzing",
                                     IF run.kind = "processTweets" THEN 70 ELSE 80,
                                     Undefined))
        storing == onProgress(preparing, Progress("storing", 90, Undefined))
    IN  [storing EXCEPT !.pc = "storing", !.inserts = @ + 1,
             !.sentimentResults = sentimentResults,
                        !.processedTweets =
                            [index \in DOMAIN run.cleanedTweets |->
                                IF run.kind = "processTweets"
                                THEN ProcessedTweetParsed(run.cleanedTweets[index],
                                                          sentimentResults[Len(sentimentResults) + 1 - index])
                                ELSE ProcessedTweet(run.cleanedTweets[index],
                                                    sentimentResults[Len(sentimentResults) + 1 - index])]]

\* from the results of the batch to `await supabase...insert(processedTweets)`
RunAnalyzed(run, sentimentResults) ==
    LET preparing ==
            onProgress(run, Progress("analyzing",
                                     IF run.kind = "processTweets" THEN 70 ELSE 80,
                                     Undefined))
        storing == onProgress(preparing, Progress("storing", 90, Undefined))
    IN  [storing EXCEPT !.pc = "storing", !.inserts = @ + 1,
             !.sentimentResults = sentimentResults,
                        !.processedTweets =
                            [index \in DOMAIN run.cleanedTweets |->
                                IF run.kind = "processTweets"
                                THEN ProcessedTweetParsed(run.cleanedTweets[index],
                                                          sentimentResults[index])
                                ELSE ProcessedTweet(run.cleanedTweets[index],
                                                    sentimentResults[index])]]

\* a run that hands its rows back although the insert was rejected
RunStoredAnyway(run, error) ==
    IF error # Undefined
    THEN [onProgress(run, Progress("error", 0, error)) EXCEPT
             !.pc = "thrown",
             !.error = Err("Error", "Error", <<"Failed to store processed tweets", error>>),
             !.returned = run.processedTweets]
    ELSE [onProgress(run, Progress("completed", 100, Undefined)) EXCEPT
             !.pc = "returned", !.returned = run.processedTweets]

\* variant: the run goes on to its last notification after a rejected insert
RunStoredCompletingAnyway(run, error) ==
    LET told == IF error # Undefined
                THEN onProgress(run, Progress("error", 0, error))
                ELSE run
    IN  [onProgress(told, Progress("completed", 100, Undefined)) EXCEPT
            !.pc = "returned", !.returned = run.processedTweets]

\* from the insert's answer to the end of the run
RunStored(run, error) ==
    IF error # Undefined
    THEN [onProgress(run, Progress("error", 0, error)) EXCEPT
             !.pc = "thrown",
             !.error = Err("Error", "Error", <<"Failed to store processed tweets", error>>)]
    ELSE [onProgress(run, Progress("completed", 100, Undefined)) EXCEPT
             !.pc = "returned", !.returned = run.processedTweets]

-----------------------------------------------------------------------------
(* Specification of the classifier clients *)

Texts == {"", "tweet"}

Envs == [huggingfaceKey : BOOLEAN, anthropicKey : BOOLEAN, backendKey : BOOLEAN]

Init ==
    /\ HUGGINGFACE_API_URL = API_ENDPOINTS_LIST[1]
    /\ env \in Envs
    /\ call = IdleCall
    /\ ncalls = 0
    /\ switched = {}
    /\ warmUps = 0
    /\ batch = IdleBatch
    /\ rawTweets = <<>>
    /\ processedTweets = <<>>
    /\ timezoneOffset = 0
    /\ filtered = NotFiltered
    /\ cleaned = NotCleaned
    /\ indexPage = IdlePage
    /\ parsed = NotParsed
    /\ rawPage = NotFetched
    /\ clearResult = NotCleared
    /\ processing = useProcessing
    /\ runs = <<>>

Classify ==
    /\ settled(call)
    /\ ncalls < MaxCalls
    /\ \E client \in Clients, text \in Texts :
           call' = analyzeSentiment(client, text, env, HUGGINGFACE_API_URL)
    /\ ncalls' = ncalls + 1
    /\ UNCHANGED <<HUGGINGFACE_API_URL, env, switched, warmUps, batchVars, pipeVars>>

PrimarySettles ==
    /\ call.pc = "primary"
    /\ \E o \in PrimaryOutcomes(call) : call' = PrimarySettled(call, o)
    /\ switched' = IF call'.pc = "secondary" THEN switched \cup {call.client}
                   ELSE switched
    /\ UNCHANGED <<HUGGINGFACE_API_URL, env, ncalls, warmUps, batchVars, pipeVars>>

BackoffElapses ==
    /\ call.pc = "backoff"
    /\ call' = BackoffElapsed(call, env, HUGGINGFACE_API_URL)
    /\ UNCHANGED <<HUGGINGFACE_API_URL, env, ncalls, switched, warmUps, batchVars, pipeVars>>

\* a variant that keeps the switch: the preferred endpoint becomes the fallback's
SecondarySettlesKeepingSwitch ==
    /\ call.pc = "secondary"
    /\ \E o \in SecondaryOutcomes(call) : call' = SecondarySettled(call, o)
    /\ HUGGINGFACE_API_URL' = IF call.client = "hf" THEN HUGGINGFACE_FALLBACK_URL
                              ELSE HUGGINGFACE_API_URL
    /\ UNCHANGED <<env, ncalls, switched, warmUps, batchVars, pipeVars>>

SecondarySettles ==
    /\ call.pc = "secondary"
    /\ \E o \in SecondaryOutcomes(call) : call' = SecondarySettled(call, o)
    /\ UNCHANGED <<HUGGINGFACE_API_URL, env, ncalls, switched, warmUps, batchVars, pipeVars>>

WarmUp ==
    /\ warmUps < MaxWarmUps
    /\ \E probes \in [DOMAIN API_ENDPOINTS_LIST -> BOOLEAN], warmOk \in BOOLEAN :
           HUGGINGFACE_API_URL' = warmUpModel(HUGGINGFACE_API_URL, probes, warmOk)
    /\ warmUps' = warmUps + 1
    /\ UNCHANGED <<env, call, ncalls, switched, batchVars, pipeVars>>

Next ==
    \/ Classify
    \/ PrimarySettles
    \/ BackoffElapses
    \/ SecondarySettles
    \/ WarmUp

Spec == Init /\ [][Next]_vars

-----------------------------------------------------------------------------
(* Specification of the batch orchestrators *)

\* the input lists: distinct texts, of every length up to MaxTexts
TextLists == { [k \in 1..n |-> ToString(k)] : n \in 0..MaxTexts }

\* The transport under a batch: "up" answers every request, "down" fails
\* every request at the network, "erroring" answers every request with a
\* non-2xx status, "flaky" does any of these to each request.
Transports == {"up", "down", "erroring", "flaky"}

Answers(c) ==
    CASE c.client = "backend" ->
             { ClaudeProxy(c.text, env.backendKey,
                           Response(200, "OK",
                                    Body("json", "positive", 900, 0, "", 0, <<>>))) }
      [] c.client = "hf" ->
             { Response(200, "OK", Body("object", "", 0, 0, "", 0,
                                        <<Item("LABEL_2", "", 954, 0)>>)) }
      [] OTHER ->
             { Response(200, "OK", Body("json", "negative", 900, 0, "", 0, <<>>)) }

Refusals(c, secondary) ==
    CASE c.client = "backend" ->
             { ClaudeProxy(c.text, env.backendKey,
                           Response(500, "Internal Server Error", ErrorBody)) }
      [] c.client = "hf" /\ ~secondary ->
             { Response(404, "Not Found", ErrorBody),
               Response(500, "Internal Server Error", ErrorBody) }
      [] OTHER -> { Response(500, "Internal Server Error", ErrorBody) }

BatchOutcomes(c, secondary) ==
    CASE batch.transport = "up"       -> Answers(c)
      [] batch.transport = "down"     -> { NetworkFailure }
      [] batch.transport = "erroring" -> Refusals(c, secondary)
      [] OTHER -> Answers(c) \cup Refusals(c, secondary)
                      \cup { NetworkFailure, TimeoutFailure }

\* the probes of the warm-up under a batch: no endpoint answers, or the
\* second of the list does
WarmUpProbes ==
    { [k \in DOMAIN API_ENDPOINTS_LIST |-> FALSE],
      [k \in DOMAIN API_ENDPOINTS_LIST |-> k = 2] }

\* the call of a promise without its request log
Quiet(c) == [c EXCEPT !.reqs = <<>>, !.last = NoOutcome]

Pending(k) ==
    /\ batch.pc = "awaiting"
    /\ k \in DOMAIN batch.promises
    /\ batch.promises[k].state = "pending"

\* every key configured, or none
BatchEnvs == { e \in Envs : e.huggingfaceKey = e.anthropicKey /\ e.anthropicKey = e.backendKey }

InitBatch ==
    /\ HUGGINGFACE_API_URL = API_ENDPOINTS_LIST[1]
    /\ env \in BatchEnvs
    /\ call = IdleCall
    /\ ncalls = 0
    /\ switched = {}
    /\ warmUps = 0
    /\ batch = IdleBatch
    /\ rawTweets = <<>>
    /\ processedTweets = <<>>
    /\ timezoneOffset = 0
    /\ filtered = NotFiltered
    /\ cleaned = NotCleaned
    /\ indexPage = IdlePage
    /\ parsed = NotParsed
    /\ rawPage = NotFetched
    /\ clearResult = NotCleared
    /\ processing = useProcessing
    /\ runs = <<>>

StartBatch ==
    /\ batch.pc = "idle"
    /\ \E client \in Clients, texts \in TextLists, transport \in Transports :
           /\ transport = "flaky" => Len(texts) <= MaxFlakyTexts
           /\ LET b == [IdleBatch EXCEPT !.client = client, !.texts = texts,
                                         !.transport = transport]
              IN  batch' = IF client = "hf" THEN [b EXCEPT !.pc = "warmup"]
                           ELSE LoopHead(b, env, HUGGINGFACE_API_URL)
    /\ UNCHANGED <<HUGGINGFACE_API_URL, env, classifyVars, pipeVars>>

\* await this.warmUpModel() of the HuggingFace orchestrator, then the loop
BatchWarmedUp ==
    /\ batch.pc = "warmup"
    /\ \E probes \in WarmUpProbes, warmOk \in BOOLEAN :
           HUGGINGFACE_API_URL' = warmUpModel(HUGGINGFACE_API_URL, probes, warmOk)
    /\ batch' = LoopHead(batch, env, HUGGINGFACE_API_URL')
    /\ UNCHANGED <<env, classifyVars, pipeVars>>

ItemPrimarySettles ==
    /\ \E k \in DOMAIN batch.promises :
           /\ Pending(k)
           /\ batch.promises[k].call.pc = "primary"
           /\ \E o \in BatchOutcomes(batch.promises[k].call, FALSE) :
                  batch' = Stepped(batch, k,
                                   Quiet(PrimarySettled(batch.promises[k].call, o)))
    /\ UNCHANGED <<HUGGINGFACE_API_URL, env, classifyVars, pipeVars>>

ItemBackoffElapses ==
    /\ \E k \in DOMAIN batch.promises :
           /\ Pending(k)
           /\ batch.promises[k].call.pc = "backoff"
           /\ batch' = Stepped(batch, k,
                   Quiet(BackoffElapsed(batch.promises[k].call, env,
                                        HUGGINGFACE_API_URL)))
    /\ UNCHANGED <<HUGGINGFACE_API_URL, env, classifyVars, pipeVars>>

ItemSecondarySettles ==
    /\ \E k \in DOMAIN batch.promises :
           /\ Pending(k)
           /\ batch.promises[k].call.pc = "secondary"
           /\ \E o \in BatchOutcomes(batch.promises[k].call, TRUE) :
                  batch' = Stepped(batch, k,
                                   Quiet(SecondarySettled(batch.promises[k].call, o)))
    /\ UNCHANGED <<HUGGINGFACE_API_URL, env, classifyVars, pipeVars>>

\* variant: the chunk is gathered as soon as one of its promises has settled
ChunkGatheredAtFirst ==
    /\ batch.pc = "awaiting"
    /\ \E k \in DOMAIN batch.promises : batch.promises[k].state # "pending"
    /\ batch' = ChunkDone(batch)
    /\ UNCHANGED <<HUGGINGFACE_API_URL, env, classifyVars, pipeVars>>

\* every promise of the chunk has settled and Promise.all resolves, or one
\* of them is rejected and Promise.all rejects
ChunkGathered ==
    /\ batch.pc = "awaiting"
    /\ \/ \A k \in DOMAIN batch.promises : batch.promises[k].state # "pending"
       \/ \E k \in DOMAIN batch.promises : batch.promises[k].state = "rejected"
    /\ batch' = ChunkDone(batch)
    /\ UNCHANGED <<HUGGINGFACE_API_URL, env, classifyVars, pipeVars>>

DelayElapses ==
    /\ batch.pc \in {"chunkDelay", "batchDelay"}
    /\ batch' = AfterDelay(batch, env, HUGGINGFACE_API_URL)
    /\ UNCHANGED <<HUGGINGFACE_API_URL, env, classifyVars, pipeVars>>

NextBatch ==
    \/ StartBatch
    \/ BatchWarmedUp
    \/ ItemPrimarySettles
    \/ ItemBackoffElapses
    \/ ItemSecondarySettles
    \/ ChunkGathered
    \/ DelayElapses

SpecBatch == InitBatch /\ [][NextBatch]_vars

\* The lists a caller can hand over at run time although texts is declared
\* string[]: one element is undefined.
UntypedLists ==
    { [k \in 1..p[1] |-> IF k = p[2] THEN Undefined ELSE ToString(k)] :
          p \in { q \in (1..MaxFlakyTexts) \X (1..MaxFlakyTexts) : q[2] <= q[1] } }

StartBatchUntyped ==
    /\ batch.pc = "idle"
    /\ \E client \in Clients, texts \in UntypedLists, transport \in Transports :
           LET b == [IdleBatch EXCEPT !.client = client, !.texts = texts,
                                      !.transport = transport]
           IN  batch' = IF client = "hf" THEN [b EXCEPT !.pc = "warmup"]
                        ELSE LoopHead(b, env, HUGGINGFACE_API_URL)
    /\ UNCHANGED <<HUGGINGFACE_API_URL, env, classifyVars, pipeVars>>

NextBatchUntyped ==
    \/ StartBatchUntyped
    \/ BatchWarmedUp
    \/ ItemPrimarySettles
    \/ ItemBackoffElapses
    \/ ItemSecondarySettles
    \/ ChunkGathered
    \/ DelayElapses

SpecBatchUntyped == InitBatch /\ [][NextBatchUntyped]_vars

-----------------------------------------------------------------------------
(* Specification of the pipeline runs *)

Runs == 1..MaxRuns

\* the raw tables: up to MaxRaw records, tweet_id unique
RECURSIVE TablesOf(_)
TablesOf(n) ==
    IF n = 0 THEN { <<>> }
    ELSE { Append(t, RawTweet(n, d, c)) :
               t \in TablesOf(n - 1), d \in Dates, c \in Contents }

RawTables == UNION { TablesOf(n) : n \in 0..MaxRaw }

\* What analyzeSentimentsBatch of claude-service.ts hands back for one text:
\* an answer of the backend as the client passes it on, or the fallback.
AnalysisResults ==
    { BackendTry(ClaudeProxy("tweet", TRUE,
          Response(200, "OK", Body("json", s, 900, 0, "", 0, <<>>)))).result :
          s \in {"positive"} }
    \cup { BackendCatch(NetworkFailure.err, MAX_RETRIES).result }

InitPipeline ==
    /\ HUGGINGFACE_API_URL = API_ENDPOINTS_LIST[1]
    /\ env = [huggingfaceKey |-> TRUE, anthropicKey |-> TRUE, backendKey |-> TRUE]
    /\ call = IdleCall
    /\ ncalls = 0
    /\ switched = {}
    /\ warmUps = 0
    /\ batch = IdleBatch
    /\ rawTweets \in RawTables
    /\ processedTweets = <<>>
    /\ timezoneOffset = 0
    /\ filtered = NotFiltered
    /\ cleaned = NotCleaned
    /\ indexPage = IdlePage
    /\ parsed = NotParsed
    /\ rawPage = NotFetched
    /\ clearResult = NotCleared
    /\ processing = useProcessing
    /\ runs = [r \in Runs |-> IdleRun]

\* The pages start a run from a button that is disabled while isProcessing is
\* set, so a run starts when the runs before it have ended. The pages call
\* processTweetsDirectly; processTweets is the operation of a page that
\* fetched the raw records itself, and a page uses one of the two.
StartRun ==
    /\ \E r \in Runs :
           /\ runs[r].pc = "idle"
           /\ \A q \in 1..(r - 1) : /\ runs[q].pc \in {"returned", "thrown", "released"}
                                    /\ runs[q].kind = "processTweetsDirectly"
           /\ runs' = Entered(runs, r, RunStarted)
    /\ UNCHANGED <<HUGGINGFACE_API_URL, env, classifyVars, batchVars, filterVars, rawTweets,
                   processedTweets>>

\* processTweets called with the rows of the raw table
StartProcessTweets ==
    /\ \E r \in Runs :
           /\ runs[r].pc = "idle"
           /\ \A q \in 1..(r - 1) : /\ runs[q].pc \in {"returned", "thrown", "released"}
                                    /\ runs[q].kind = "processTweets"
           /\ runs' = Entered(runs, r, ProcessTweetsStarted(rawTweets))
    /\ UNCHANGED <<HUGGINGFACE_API_URL, env, classifyVars, batchVars, filterVars, rawTweets,
                   processedTweets>>

RawTweetsFetched ==
    /\ \E r \in Runs, errs \in QueryErrors :
           /\ runs[r].pc = "fetching"
           /\ runs' = [runs EXCEPT ![r] =
                          RunFetched(@, getRawTweets(rawTweets, 1000, errs))]
    /\ UNCHANGED <<HUGGINGFACE_API_URL, env, classifyVars, batchVars, filterVars, rawTweets,
                   processedTweets>>

SentimentsAnalyzed ==
    /\ \E r \in Runs :
           /\ runs[r].pc = "analyzing"
           /\ \E sentimentResults \in
                  [DOMAIN runs[r].cleanedTweets -> AnalysisResults] :
                  runs' = [runs EXCEPT ![r] = RunAnalyzed(@, sentimentResults)]
    /\ UNCHANGED <<HUGGINGFACE_API_URL, env, classifyVars, batchVars, filterVars, rawTweets,
                   processedTweets>>

\* variant: the insert names the raw table
InsertSettlesInRawTable ==
    /\ \E r \in Runs, error \in {Undefined, "insert rejected"} :
           /\ runs[r].pc = "storing"
           /\ runs' = [runs EXCEPT ![r] = RunStored(@, error)]
           /\ rawTweets' =
                  IF error = Undefined
                  THEN rawTweets \o
                           [k \in DOMAIN runs[r].processedTweets |->
                               RawTweet(Len(rawTweets) + k, NoDate,
                                        runs[r].processedTweets[k].processed_content)]
                  ELSE rawTweets
    /\ UNCHANGED <<HUGGINGFACE_API_URL, env, classifyVars, batchVars, filterVars,
                   processedTweets>>

\* the insert settles: the table has the run's rows, or the store's error
InsertSettles ==
    /\ \E r \in Runs, error \in {Undefined, "insert rejected"} :
           /\ runs[r].pc = "storing"
           /\ runs' = [runs EXCEPT ![r] = RunStored(@, error)]
           /\ processedTweets' = IF error = Undefined
                                 THEN insert(processedTweets, runs[r].processedTweets)
                                 ELSE processedTweets
    /\ UNCHANGED <<HUGGINGFACE_API_URL, env, classifyVars, batchVars, filterVars, rawTweets>>

NextPipeline ==
    \/ StartRun
    \/ StartProcessTweets
    \/ RawTweetsFetched
    \/ SentimentsAnalyzed
    \/ InsertSettles

SpecPipeline == InitPipeline /\ [][NextPipeline]_vars

-----------------------------------------------------------------------------
(* Specification of a run together with its batch: processTweetsDirectly
   awaits analyzeSentimentsBatch of claude-service.ts, whose requests settle
   one by one *)

\* the raw tables of these runs: every record passes the date filter, and
\* the first may clean to the empty text
RunTables ==
    { [k \in 1..n |-> RawTweet(k, AtText("June", 15, 2024, 10, 30, "AM"),
                                IF k = 1 THEN c ELSE <<"a">>)] :
          n \in 0..MaxFlakyTexts, c \in Contents }

InitRun ==
    /\ HUGGINGFACE_API_URL = API_ENDPOINTS_LIST[1]
    /\ env = [huggingfaceKey |-> TRUE, anthropicKey |-> TRUE, backendKey |-> TRUE]
    /\ call = IdleCall
    /\ ncalls = 0
    /\ switched = {}
    /\ warmUps = 0
    /\ batch = IdleBatch
    /\ rawTweets \in RunTables
    /\ processedTweets = <<>>
    /\ timezoneOffset = 0
    /\ filtered = NotFiltered
    /\ cleaned = NotCleaned
    /\ indexPage = IdlePage
    /\ parsed = NotParsed
    /\ rawPage = NotFetched
    /\ clearResult = NotCleared
    /\ processing = useProcessing
    /\ runs = [r \in Runs |-> IdleRun]

\* one run of processTweetsDirectly is followed from its start to its end
StartOneRun ==
    /\ runs[1].pc = "idle"
    /\ runs' = Entered(runs, 1, RunStarted)
    /\ UNCHANGED <<HUGGINGFACE_API_URL, env, classifyVars, batchVars, filterVars, rawTweets,
                   processedTweets>>

\* `await import('./claude-service')`, then analyzeSentimentsBatch(texts) up
\* to its first await. The batch keeps a text by its place in the list. The
\* transport is flaky under the short lists only.
AnalysisStarted ==
    /\ batch.pc = "idle"
    /\ \E r \in Runs, transport \in Transports :
           /\ runs[r].pc = "analyzing"
           /\ transport = "flaky" => Len(runs[r].texts) <= MaxCalls
           /\ batch' = LoopHead([IdleBatch EXCEPT
                                    !.client = "backend",
                                    !.texts = [k \in DOMAIN runs[r].texts |-> ToString(k)],
                                    !.transport = transport],
                                env, HUGGINGFACE_API_URL)
    /\ UNCHANGED <<HUGGINGFACE_API_URL, env, classifyVars, pipeVars>>

\* analyzeSentimentsBatch returns its results to the run
AnalysisReturned ==
    /\ batch.pc = "done"
    /\ \E r \in Runs :
           /\ runs[r].pc = "analyzing"
           /\ runs' = [runs EXCEPT ![r] = RunAnalyzed(@, batch.results)]
    /\ batch' = IdleBatch
    /\ UNCHANGED <<HUGGINGFACE_API_URL, env, classifyVars, filterVars, rawTweets,
                   processedTweets>>

NextRun ==
    \/ StartOneRun
    \/ RawTweetsFetched
    \/ AnalysisStarted
    \/ ItemPrimarySettles
    \/ ItemBackoffElapses
    \/ ChunkGathered
    \/ DelayElapses
    \/ AnalysisReturned
    \/ InsertSettles

SpecRun == InitRun /\ [][NextRun]_vars

\* what the event loop does once a run is at its analyzing stage: a request
\* or the insert settles, a timer fires, a continuation runs
Settling ==
    \/ AnalysisStarted
    \/ ItemPrimarySettles
    \/ ItemBackoffElapses
    \/ ChunkGathered
    \/ DelayElapses
    \/ AnalysisReturned
    \/ InsertSettles

\* Every request and every storage call settles, every timer fires, and a
\* continuation that can run does run: the run does not stand still while
\* one of these steps is possible.
FairRun == SpecRun /\ WF_vars(Settling)

-----------------------------------------------------------------------------
(* Specification of the page's operations on the two tables *)

NoRunActive == \A r \in Runs : runs[r].pc \in {"idle", "returned", "thrown", "released"}

\* handleClearAllTweets
ClearAllTweets ==
    /\ NoRunActive
    /\ \E processedError, rawError \in BOOLEAN :
           LET cleared == clearAllTweets(rawTweets, processedTweets,
                                         processedError, rawError)
           IN  /\ rawTweets' = cleared.raw
               /\ processedTweets' = cleared.processed
    /\ UNCHANGED <<HUGGINGFACE_API_URL, env, classifyVars, batchVars, filterVars, runs>>

\* handleReprocessAll: the processed table is deleted, then a run is started
ReprocessAll ==
    /\ \E r \in Runs, deleteError \in BOOLEAN :
           /\ runs[r].pc = "idle"
           /\ \A q \in 1..(r - 1) : runs[q].pc \in {"returned", "thrown", "released"}
           /\ IF deleteError
              THEN UNCHANGED <<runs, processedTweets>>
              ELSE /\ processedTweets' = <<>>
                   /\ runs' = Entered(runs, r, RunStarted)
    /\ UNCHANGED <<HUGGINGFACE_API_URL, env, classifyVars, batchVars, filterVars, rawTweets>>

NextPage ==
    \/ StartRun
    \/ ReprocessAll
    \/ ClearAllTweets
    \/ RawTweetsFetched
    \/ SentimentsAnalyzed
    \/ InsertSettles

SpecPage == InitPipeline /\ [][NextPage]_vars

-----------------------------------------------------------------------------
(* Specification of clearAllTweets: the tables are filled by a run, and the
   caller keeps what the operation returned *)

\* `const result = await DataProcessingService.clearAllTweets()`
ClearAllTweetsReturns ==
    /\ NoRunActive
    /\ \E processedError, rawError \in BOOLEAN :
           LET cleared == clearAllTweets(rawTweets, processedTweets,
                                         processedError, rawError)
           IN  /\ rawTweets' = cleared.raw
               /\ processedTweets' = cleared.processed
               /\ clearResult' = [called |-> TRUE, thrown |-> cleared.thrown,
                                  success |-> cleared.success,
                                  message |-> cleared.message]
    /\ UNCHANGED <<HUGGINGFACE_API_URL, env, classifyVars, batchVars, runs, timezoneOffset,
                   filtered, cleaned, indexPage, parsed, rawPage, processing>>

NextClear ==
    \/ StartOneRun
    \/ RawTweetsFetched
    \/ SentimentsAnalyzed
    \/ InsertSettles
    \/ ClearAllTweetsReturns

SpecClear == InitPipeline /\ [][NextClear]_vars

-----------------------------------------------------------------------------
(* Specification of the date filters *)

\* the date texts the filters are applied to: both sides of the turn of two
\* years and a day in the middle of a year, in the first shape; the turn of
\* the year in ISO texts with and without zone; and what is no date
DateTexts ==
    { AtText("January", 1, year, 12, 0, "AM") : year \in {2024, 2025} }
    \cup { AtText("December", 31, year, 11, 59, "PM") : year \in {2023, 2024} }
    \cup { AtText("June", 15, year, 12, 30, "PM") : year \in {2023, 2024, 2025} }
    \cup { IsoText(2024, 1, 1, 0, 0, zone) : zone \in {"Z", ""} }
    \cup { IsoText(2023, 12, 31, 23, 59, zone) : zone \in {"Z", ""} }
    \cup { AtText("Smarch", 1, 2024, 12, 0, "AM"), NoDate, EmptyText, NotADate,
           NumberDate }

RECURSIVE DatedTablesOf(_)
DatedTablesOf(n) ==
    IF n = 0 THEN { <<>> }
    ELSE { Append(t, RawTweet(n, d, <<"a">>)) :
               t \in DatedTablesOf(n - 1), d \in DateTexts }

DatedTables == UNION { DatedTablesOf(n) : n \in 0..MaxRaw }

\* New York in winter, UTC, India
TimezoneOffsets == {-300, 0, 330}

InitFilter ==
    /\ HUGGINGFACE_API_URL = API_ENDPOINTS_LIST[1]
    /\ env = [huggingfaceKey |-> TRUE, anthropicKey |-> TRUE, backendKey |-> TRUE]
    /\ call = IdleCall
    /\ ncalls = 0
    /\ switched = {}
    /\ warmUps = 0
    /\ batch = IdleBatch
    /\ rawTweets \in DatedTables
    /\ processedTweets = <<>>
    /\ runs = [r \in Runs |-> IdleRun]
    /\ timezoneOffset \in TimezoneOffsets
    /\ filtered = NotFiltered
    /\ cleaned = NotCleaned
    /\ indexPage = IdlePage
    /\ parsed = NotParsed
    /\ rawPage = NotFetched
    /\ clearResult = NotCleared
    /\ processing = useProcessing

FilterRecentTweets ==
    /\ filtered' = [by |-> "filterRecentTweets", year |-> 2024,
                    tweets |-> filterRecentTweets(rawTweets)]
    /\ UNCHANGED <<HUGGINGFACE_API_URL, env, classifyVars, batchVars, rawTweets,
                   processedTweets, runs, timezoneOffset, cleaned, indexPage, parsed, rawPage,
                   clearResult, processing>>

FilterTweetsByYear ==
    /\ \E year \in {2024, 2025} :
           filtered' = [by |-> "filterTweetsByYear", year |-> year,
                        tweets |-> filterTweetsByYear(rawTweets, year)]
    /\ UNCHANGED <<HUGGINGFACE_API_URL, env, classifyVars, batchVars, rawTweets,
                   processedTweets, runs, timezoneOffset, cleaned, indexPage, parsed, rawPage,
                   clearResult, processing>>

NextFilter ==
    \/ FilterRecentTweets
    \/ FilterTweetsByYear

SpecFilter == InitFilter /\ [][NextFilter]_vars

-----------------------------------------------------------------------------
(* Specification of the cleaning of a text *)

\* what the texts are put together from: a word character, a blank, the
\* markers of mentions and hashtags, punctuation, and the scheme of a URL
Pieces ==
    {<<"a">>, <<" ">>, <<"@">>, <<"#">>, <<".">>, <<"!">>,
     <<"h", "t", "t", "p", ":", "/", "/">>}

RECURSIVE TextsOf(_)
TextsOf(n) ==
    IF n = 0 THEN { <<>> }
    ELSE { text \o piece : text \in TextsOf(n - 1), piece \in Pieces }

ContentTexts == UNION { TextsOf(n) : n \in 0..MaxPieces }

InitClean ==
    /\ HUGGINGFACE_API_URL = API_ENDPOINTS_LIST[1]
    /\ env = [huggingfaceKey |-> TRUE, anthropicKey |-> TRUE, backendKey |-> TRUE]
    /\ call = IdleCall
    /\ ncalls = 0
    /\ switched = {}
    /\ warmUps = 0
    /\ batch = IdleBatch
    /\ rawTweets = <<>>
    /\ processedTweets = <<>>
    /\ runs = [r \in Runs |-> IdleRun]
    /\ timezoneOffset = 0
    /\ filtered = NotFiltered
    /\ \E content \in ContentTexts : cleaned = [content |-> content, results |-> <<>>]
    /\ indexPage = IdlePage
    /\ parsed = NotParsed
    /\ rawPage = NotFetched
    /\ clearResult = NotCleared
    /\ processing = useProcessing

\* cleanTweetContent applied to the text, then to what it returned
CleanTweetContent ==
    /\ Len(cleaned.results) < MaxCleanings
    /\ cleaned' = [cleaned EXCEPT !.results =
                       Append(@, cleanTweetContent(IF Len(@) = 0 THEN cleaned.content
                                                   ELSE @[Len(@)]))]
    /\ UNCHANGED <<HUGGINGFACE_API_URL, env, classifyVars, batchVars, rawTweets,
                   processedTweets, runs, timezoneOffset, filtered, indexPage, parsed, rawPage,
                   clearResult, processing>>

NextClean == CleanTweetContent

SpecClean == InitClean /\ [][NextClean]_vars

-----------------------------------------------------------------------------
(* Specification of date parsing: parseTweetDate on texts of the first shape *)

\* 'Month Day, Year at HH:MM AM/PM' for every hour of the 12-hour clock, at
\* the first and the last minute of the hour, on the first and the last day
\* of a leap year
ClockTexts ==
    { AtText(date[1], date[2], 2024, hour, minute, ampm) :
          date \in {<<"January", 1>>, <<"December", 31>>},
          hour \in 1..12, minute \in {0, 59}, ampm \in {"AM", "PM"} }

InitParse ==
    /\ HUGGINGFACE_API_URL = API_ENDPOINTS_LIST[1]
    /\ env = [huggingfaceKey |-> TRUE, anthropicKey |-> TRUE, backendKey |-> TRUE]
    /\ call = IdleCall
    /\ ncalls = 0
    /\ switched = {}
    /\ warmUps = 0
    /\ batch = IdleBatch
    /\ rawTweets = <<>>
    /\ processedTweets = <<>>
    /\ runs = [r \in Runs |-> IdleRun]
    /\ timezoneOffset \in TimezoneOffsets
    /\ filtered = NotFiltered
    /\ cleaned = NotCleaned
    /\ indexPage = IdlePage
    /\ \E dateStr \in ClockTexts :
           parsed = [dateStr |-> dateStr, called |-> FALSE, result |-> null]
    /\ rawPage = NotFetched
    /\ clearResult = NotCleared
    /\ processing = useProcessing

\* parseTweetDate(dateStr)
ParseTweetDate ==
    /\ ~parsed.called
    /\ parsed' = [parsed EXCEPT !.called = TRUE, !.result = parseTweetDate(parsed.dateStr)]
    /\ UNCHANGED <<HUGGINGFACE_API_URL, env, classifyVars, batchVars, rawTweets,
                   processedTweets, runs, timezoneOffset, filtered, cleaned, indexPage, rawPage,
                   clearResult, processing>>

NextParse == ParseTweetDate

SpecParse == InitParse /\ [][NextParse]_vars

-----------------------------------------------------------------------------
(* Specification of the fetch: getRawTweets with pages smaller than the table *)

InitFetch ==
    /\ HUGGINGFACE_API_URL = API_ENDPOINTS_LIST[1]
    /\ env = [huggingfaceKey |-> TRUE, anthropicKey |-> TRUE, backendKey |-> TRUE]
    /\ call = IdleCall
    /\ ncalls = 0
    /\ switched = {}
    /\ warmUps = 0
    /\ batch = IdleBatch
    /\ rawTweets \in RawTables
    /\ processedTweets = <<>>
    /\ runs = [r \in Runs |-> IdleRun]
    /\ timezoneOffset = 0
    /\ filtered = NotFiltered
    /\ cleaned = NotCleaned
    /\ indexPage = IdlePage
    /\ parsed = NotParsed
    /\ rawPage = NotFetched
    /\ clearResult = NotCleared
    /\ processing = useProcessing

\* getRawTweets(limit, 0), with the queries in errs answered by an error
GetRawTweets ==
    /\ \E limit \in 1..MaxRaw, errs \in QueryErrors :
           LET settledTo == getRawTweets(rawTweets, limit, errs)
           IN  rawPage' = [limit |-> limit, errs |-> errs, called |-> TRUE,
                           ok |-> settledTo.ok, rows |-> settledTo.rows]
    /\ UNCHANGED <<HUGGINGFACE_API_URL, env, classifyVars, batchVars, rawTweets,
                   processedTweets, runs, timezoneOffset, filtered, cleaned, indexPage,
                   parsed, clearResult, processing>>

NextFetch == GetRawTweets

SpecFetch == InitFetch /\ [][NextFetch]_vars

-----------------------------------------------------------------------------
(* Specification of the useProcessing hook: its operations in any order *)

\* the notifications a run of the pipeline hands to updateProgress
Notifications ==
    { Progress("fetching", 10, Undefined), Progress("filtering", 10, Undefined),
      Progress("filtering", 20, Undefined), Progress("filtering", 30, Undefined),
      Progress("analyzing", 30, Undefined), Progress("analyzing", 40, Undefined),
      Progress("analyzing", 70, Undefined), Progress("analyzing", 80, Undefined),
      Progress("storing", 90, Undefined), Progress("completed", 100, Undefined),
      Progress("error", 0, "insert rejected") }

\* what a caller hands to setError: an Error, a TypeError of fetch, a string,
\* undefined
ThrownValues ==
    { Err("Error", "Error", <<"Failed to store processed tweets", "insert rejected">>),
      Err("Error", "Error", <<"Backend API error", "500">>),
      Err("TypeError", "TypeError", <<"Failed to fetch">>),
      Err("string", "", <<"boom">>),
      Err("undefined", "", <<>>) }

Contexts == {Undefined, "Index.handleProcessTweets"}

InitHook ==
    /\ HUGGINGFACE_API_URL = API_ENDPOINTS_LIST[1]
    /\ env = [huggingfaceKey |-> TRUE, anthropicKey |-> TRUE, backendKey |-> TRUE]
    /\ call = IdleCall
    /\ ncalls = 0
    /\ switched = {}
    /\ warmUps = 0
    /\ batch = IdleBatch
    /\ rawTweets = <<>>
    /\ processedTweets = <<>>
    /\ runs = <<>>
    /\ timezoneOffset = 0
    /\ filtered = NotFiltered
    /\ cleaned = NotCleaned
    /\ indexPage = IdlePage
    /\ parsed = NotParsed
    /\ rawPage = NotFetched
    /\ clearResult = NotCleared
    /\ processing = useProcessing

hookFrame ==
    <<HUGGINGFACE_API_URL, env, classifyVars, batchVars, rawTweets, processedTweets, runs,
      timezoneOffset, filtered, cleaned, indexPage, parsed, rawPage, clearResult>>

StartProcessing ==
    /\ processing' = [processing EXCEPT !.isProcessing = TRUE, !.progress = null,
                                        !.error = null]
    /\ UNCHANGED hookFrame

StopProcessing ==
    /\ processing' = [processing EXCEPT !.isProcessing = FALSE, !.progress = null]
    /\ UNCHANGED hookFrame

ClearError ==
    /\ processing' = [processing EXCEPT !.error = null]
    /\ UNCHANGED hookFrame

UpdateProgress ==
    /\ \E newProgress \in Notifications :
           processing' = [processing EXCEPT !.progress = newProgress]
    /\ UNCHANGED hookFrame

SetError ==
    /\ \E error \in ThrownValues, context \in Contexts :
           processing' = [processing EXCEPT !.error = handleError(error, context),
                                            !.isProcessing = FALSE,
                                            !.progress = null]
    /\ UNCHANGED hookFrame

NextHook ==
    \/ StartProcessing
    \/ StopProcessing
    \/ ClearError
    \/ UpdateProgress
    \/ SetError

SpecHook == InitHook /\ [][NextHook]_vars

-----------------------------------------------------------------------------
(* Specification of the Index page: handleFetchNewTweets and its timers *)

\* what setInterval and setTimeout of one successful trigger have set up
Polling ==
    [interval |-> TRUE, elapsed |-> 0, polls |-> 0, timedOut |-> FALSE]

\* the processed table after a run of handleProcessTweets on an empty one,
\* every classification having ended in the fallback
ProcessedAll(raw) ==
    LET run == RunFetched(RunStarted, getRawTweets(raw, 1000, {}))
    IN  IF run.pc # "analyzing" THEN <<>>
        ELSE insert(<<>>,
                 RunAnalyzed(run, [k \in DOMAIN run.cleanedTweets |->
                                      NeutralFallback("CLAUDE_NEU_FALLBACK")]).processedTweets)

InitPoll ==
    /\ HUGGINGFACE_API_URL = API_ENDPOINTS_LIST[1]
    /\ env = [huggingfaceKey |-> TRUE, anthropicKey |-> TRUE, backendKey |-> TRUE]
    /\ call = IdleCall
    /\ ncalls = 0
    /\ switched = {}
    /\ warmUps = 0
    /\ batch = IdleBatch
    /\ rawTweets = <<>>
    /\ processedTweets = <<>>
    /\ runs = [r \in Runs |-> IdleRun]
    /\ timezoneOffset = 0
    /\ filtered = NotFiltered
    /\ cleaned = NotCleaned
    /\ indexPage = IdlePage
    /\ parsed = NotParsed
    /\ rawPage = NotFetched
    /\ clearResult = NotCleared
    /\ processing = useProcessing

\* the click on 'Fetch New Tweets' (disabled while isProcessing), up to
\* `await DataProcessingService.triggerN8nWorkflow()`
FetchNewTweets ==
    /\ ~indexPage.isProcessing
    /\ indexPage.fetches < MaxSessions
    /\ indexPage' = [indexPage EXCEPT !.isProcessing = TRUE, !.error = FALSE,
                                      !.triggering = @ + 1, !.fetches = @ + 1]
    /\ UNCHANGED <<HUGGINGFACE_API_URL, env, classifyVars, batchVars, rawTweets,
                   processedTweets, runs, timezoneOffset, filtered, cleaned, parsed, rawPage,
                   clearResult, processing>>

\* the trigger settles: on success the interval and the timeout are set up,
\* otherwise the handler's catch reports the error and clears the flag
TriggerSettles ==
    /\ indexPage.triggering > 0
    /\ \E success \in BOOLEAN :
           indexPage' =
               IF success
               THEN [indexPage EXCEPT !.triggering = @ - 1,
                                      !.sessions = Append(@, Polling)]
               ELSE [indexPage EXCEPT !.triggering = @ - 1, !.error = TRUE,
                                      !.isProcessing = FALSE]
    /\ UNCHANGED <<HUGGINGFACE_API_URL, env, classifyVars, batchVars, rawTweets,
                   processedTweets, runs, timezoneOffset, filtered, cleaned, parsed, rawPage,
                   clearResult, processing>>

\* the interval fires: one more loadRealStats() is started
PollTick ==
    /\ \E s \in DOMAIN indexPage.sessions :
           /\ indexPage.sessions[s].interval
           /\ indexPage.sessions[s].elapsed + POLLING_INTERVAL <= POLLING_TIMEOUT
           /\ indexPage.inFlight < MaxInFlight
           /\ indexPage' = [indexPage EXCEPT
                               !.sessions[s].elapsed = @ + POLLING_INTERVAL,
                               !.sessions[s].polls = @ + 1,
                               !.inFlight = @ + 1]
    /\ UNCHANGED <<HUGGINGFACE_API_URL, env, classifyVars, batchVars, rawTweets,
                   processedTweets, runs, timezoneOffset, filtered, cleaned, parsed, rawPage,
                   clearResult, processing>>

\* loadRealStats() of a poll settles: the stats are shown, or the error
StatsLoaded ==
    /\ \E failed \in BOOLEAN :
           /\ indexPage.inFlight > 0
           /\ indexPage' =
                  [indexPage EXCEPT
                      !.inFlight = @ - 1,
                      !.realStats = IF failed THEN [null |-> TRUE]
                                    ELSE getProcessingStats(rawTweets, processedTweets),
                      !.error = failed]
    /\ UNCHANGED <<HUGGINGFACE_API_URL, env, classifyVars, batchVars, rawTweets,
                   processedTweets, runs, timezoneOffset, filtered, cleaned, parsed, rawPage,
                   clearResult, processing>>

\* variant: the timeout leaves the interval running while no data has arrived
TimedOutWaitingForData(page, s, raw) ==
    [page EXCEPT !.sessions[s].interval = (raw = <<>>),
                 !.sessions[s].elapsed = IF raw = <<>> THEN 0 ELSE @,
                 !.sessions[s].timedOut = TRUE,
                 !.isProcessing = (raw = <<>>)]

\* the callback of setTimeout(..., 180000): clearInterval(pollInterval),
\* setProcessingMessage(''), setIsProcessing(false)
TimedOut(page, s, raw) ==
    [page EXCEPT !.sessions[s].interval = FALSE,
                 !.sessions[s].timedOut = TRUE,
                 !.isProcessing = FALSE]

\* The timeout fires. The interval's eighteenth callback and the timeout are
\* due together, so the timeout comes after it or, the interval having
\* drifted, before it.
PollingTimeout ==
    /\ \E s \in DOMAIN indexPage.sessions :
           /\ ~indexPage.sessions[s].timedOut
           /\ indexPage.sessions[s].elapsed + POLLING_INTERVAL >= POLLING_TIMEOUT
           /\ indexPage' = TimedOut(indexPage, s, rawTweets)
    /\ UNCHANGED <<HUGGINGFACE_API_URL, env, classifyVars, batchVars, rawTweets,
                   processedTweets, runs, timezoneOffset, filtered, cleaned, parsed, rawPage,
                   clearResult, processing>>

\* the workflow that was triggered writes a record to raw_tweets
WorkflowInserts ==
    /\ Len(indexPage.sessions) > 0
    /\ Len(rawTweets) < MaxRaw
    /\ rawTweets' = Append(rawTweets,
                           RawTweet(Len(rawTweets) + 1,
                                    AtText("June", 15, 2025, 10, 30, "AM"), <<"a">>))
    /\ UNCHANGED <<HUGGINGFACE_API_URL, env, classifyVars, batchVars,
                   processedTweets, runs, filterVars>>

\* the click on 'Reprocess All' (disabled while isProcessing), up to the
\* await of the delete
ReprocessAllClicked ==
    /\ ~indexPage.isProcessing
    /\ indexPage.reprocessed < MaxSessions
    /\ indexPage' = [indexPage EXCEPT !.isProcessing = TRUE,
                                      !.reprocessing = @ + 1, !.reprocessed = @ + 1]
    /\ UNCHANGED <<HUGGINGFACE_API_URL, env, classifyVars, batchVars, rawTweets,
                   processedTweets, runs, timezoneOffset, filtered, cleaned, parsed, rawPage,
                   clearResult, processing>>

\* handleReprocessAll comes to its end: the delete failed; or the run of
\* handleProcessTweets failed, which that handler catches; or it succeeded and
\* left its setTimeout(..., 4000) pending. The finally clears the flag at once.
ReprocessAllEnds ==
    /\ indexPage.reprocessing > 0
    /\ \E outcome \in {"deleteError", "processError", "done"} :
           /\ indexPage' =
                  [indexPage EXCEPT
                      !.reprocessing = @ - 1,
                      !.isProcessing = FALSE,
                      !.error = (outcome # "done"),
                      !.realStats = IF outcome = "done"
                                    THEN getProcessingStats(rawTweets,
                                                            ProcessedAll(rawTweets))
                                    ELSE @,
                      !.resetTimers = IF outcome = "done" THEN @ + 1 ELSE @]
           /\ processedTweets' = CASE outcome = "deleteError" -> processedTweets
                                   [] outcome = "processError" -> <<>>
                                   [] OTHER -> ProcessedAll(rawTweets)
    /\ UNCHANGED <<HUGGINGFACE_API_URL, env, classifyVars, batchVars, rawTweets,
                   runs, timezoneOffset, filtered, cleaned, parsed, rawPage,
                   clearResult, processing>>

\* the callback of handleProcessTweets' setTimeout(..., 4000)
ResetTimerFires ==
    /\ indexPage.resetTimers > 0
    /\ indexPage' = [indexPage EXCEPT !.resetTimers = @ - 1, !.isProcessing = FALSE]
    /\ UNCHANGED <<HUGGINGFACE_API_URL, env, classifyVars, batchVars, rawTweets,
                   processedTweets, runs, timezoneOffset, filtered, cleaned, parsed, rawPage,
                   clearResult, processing>>

NextPoll ==
    \/ FetchNewTweets
    \/ TriggerSettles
    \/ PollTick
    \/ StatsLoaded
    \/ PollingTimeout
    \/ WorkflowInserts
    \/ ReprocessAllClicked
    \/ ReprocessAllEnds
    \/ ResetTimerFires

SpecPoll == InitPoll /\ [][NextPoll]_vars

-----------------------------------------------------------------------------
(* Properties of the classifier clients (checked under Spec) *)

\* A fetch that failed in transit: a network error or the request's timeout.
Transient(o) == o \in FetchFailures

\* The last request of the call went to the client's primary endpoint.
OnPrimaryPath(c) ==
    c.reqs # <<>> /\ c.reqs[Len(c.reqs)] # SecondaryUrl(c.client)

PrimaryRequests(c) ==
    Cardinality({k \in DOMAIN c.reqs : c.reqs[k] # SecondaryUrl(c.client)})

\* A 2xx response whose body has a shape the client reads a result from.
Usable(c, o) ==
    /\ o.kind = "response"
    /\ ok(o)
    /\ CASE c.client = "backend" -> o.body.shape = "result"
         [] c.client = "hf" ->
                \/ o.body.shape \in {"object", "flat"}
                \/ o.body.shape = "nested" /\ o.body.items # <<>>
         [] OTHER -> o.body.shape = "json" /\ o.body.sentiment # Undefined

FallbackLabels == {"NEU_FALLBACK", "CLAUDE_NEU_FALLBACK", "CLAUDE_PROXY_FALLBACK"}

\* The fixed image of the 5-level scale
SentimentImage ==
    [s \in Range(validSentiments) |->
        CASE s = "very_negative" -> -2
          [] s = "negative"      -> -1
          [] s = "neutral"       -> 0
          [] s = "positive"      -> 1
          [] OTHER               -> 2]

\* C3: classify never raises to its caller: every call resolves to a result,
\* whatever the transport does and whichever API keys are configured.
C3_NeverRaises == call.pc # "thrown"

\* C5: the sentimentValue of every result is the fixed image of its sentiment
\* (very_negative=-2 ... very_positive=2).
C5_ValueIsImageOfSentiment ==
    call.pc = "done" =>
        /\ call.result.sentiment \in DOMAIN SentimentImage
        /\ call.result.sentimentValue = SentimentImage[call.result.sentiment]

\* C6: the sentiment of every result is one of the five values of the scale,
\* also when the model answers with another string.
C6_ClosedEnumeration ==
    call.pc = "done" => call.result.sentiment \in Range(validSentiments)

\* C7: a call issues at most 3 requests to its primary backend, and it waits
\* to retry only after a request failed in transit (network error or timeout).
C7_RetryBudget ==
    /\ PrimaryRequests(call) <= 3
    /\ call.pc = "backoff" => Transient(call.last)

C7_Witness ==
    /\ call.pc = "done"
    /\ PrimaryRequests(call) = 3
    /\ call.result.label \in FallbackLabels

NotCompleted(c) == c.pc = "thrown" \/ (c.pc = "done" /\ ~Usable(c, c.last))

\* C9: whenever classification cannot be completed the call's result is
\* neutral, confidence 0.5, value 0, score 0.5, label <BACKEND>_NEU_FALLBACK,
\* on every failure path of every client.
C9_BackendNeuFallback ==
    NotCompleted(call) =>
        /\ call.pc = "done"
        /\ call.result \in { NeutralFallback(b \o "_NEU_FALLBACK") :
                                 b \in {"CLAUDE", "CLAUDE_PROXY", "HF", "HUGGINGFACE"} }

\* C10: no step of a classify call changes the preferred endpoint, and every
\* call sends its first request to a primary endpoint (for HuggingFace the
\* preferred one), also after an earlier call went to the secondary model.
C10_SwitchNotPersisted ==
    /\ [][call' # call => HUGGINGFACE_API_URL' = HUGGINGFACE_API_URL]_vars
    /\ [][(ncalls' # ncalls /\ call'.client = "hf" /\ call'.reqs # <<>>)
             => call'.reqs[1] = HUGGINGFACE_API_URL]_vars
    /\ [](call.reqs # <<>> =>
              call.reqs[1] \in Range(API_ENDPOINTS_LIST) \cup {BACKEND_URL, CLAUDE_PRODUCTION})
    /\ [](HUGGINGFACE_API_URL \in Range(API_ENDPOINTS_LIST))

C10_Witness ==
    /\ "hf" \in switched
    /\ call.client = "hf"
    /\ call.pc = "primary"
    /\ call.retryCount = 0
    /\ call.reqs = <<HUGGINGFACE_API_URL>>


-----------------------------------------------------------------------------
(* Properties of the batch orchestrators (checked under SpecBatch) *)

\* C1: the results pushed so far, and the list returned, hold at position k
\* the result of classifying texts[k], in whatever order the calls of a chunk
\* settled.
C1_OrderPreserved ==
    /\ Len(batch.from) = Len(batch.results)
    /\ \A k \in DOMAIN batch.results : batch.from[k] = batch.texts[k]
    /\ \A k \in DOMAIN batch.batchResults :
           batch.batchFrom[k] = batch.texts[batch.i + k]

\* a batch beyond one chunk has returned, and some chunk's calls settled in
\* another order than the array's
C1_Witness ==
    /\ batch.pc = "done"
    /\ batch.reordered
    /\ Len(batch.results) > CONCURRENCY
    /\ \E k, m \in DOMAIN batch.results : batch.results[k] # batch.results[m]

\* C2: the batch returns, and the list it returns is as long as its input,
\* also when every request fails.
C2_LengthPreserved ==
    /\ batch.pc # "rejected"
    /\ batch.pc = "done" => Len(batch.results) = Len(batch.texts)

\* every request of a batch of more than batchSize texts failed
C2_Witness ==
    /\ batch.pc = "done"
    /\ batch.transport = "down"
    /\ Len(batch.texts) > batchSize
    /\ \A k \in DOMAIN batch.results : batch.results[k].label \in FallbackLabels

-----------------------------------------------------------------------------
(* Properties of the pipeline runs (checked under SpecPipeline) *)

\* C4: after any sequence of runs over the same raw table the processed table
\* holds at most one row per original_tweet_id (exactly once per record; rows
\* are only appended).
C4_ExactlyOncePerRecord ==
    \A k, m \in DOMAIN processedTweets :
        processedTweets[k].original_tweet_id = processedTweets[m].original_tweet_id
            => k = m

-----------------------------------------------------------------------------
(* Concurrency of the batch orchestrators (checked under SpecBatch) *)

\* the classify calls dispatched and not yet resolved
InFlight(b) == {k \in DOMAIN b.promises : b.promises[k].state = "pending"}

\* C11: at every moment of a batch at most 3 classify calls are in flight,
\* retries and backoff waits included, for every input length.
C11_AtMostThreeInFlight ==
    /\ Cardinality(InFlight(batch)) <= 3
    /\ Len(batch.promises) <= 3

\* three calls in flight beyond the first chunk, one of them waiting to retry
C11_Witness ==
    /\ Cardinality(InFlight(batch)) = 3
    /\ Len(batch.results) + Len(batch.batchResults) >= CONCURRENCY
    /\ \E k \in InFlight(batch) : batch.promises[k].call.pc = "backoff"

Dispatched(b) ==
    IF b.client = "hf" THEN b.i + b.j + Len(b.promises) ELSE b.i + Len(b.promises)

\* the chunks a list of n texts is dispatched in
ChunksOf(client, n) ==
    IF client = "hf"
    THEN (n \div batchSize) * ((batchSize + concurrency - 1) \div concurrency)
             + ((n % batchSize) + concurrency - 1) \div concurrency
    ELSE (n + CONCURRENCY - 1) \div CONCURRENCY

Pacing == {"chunkDelay", "batchDelay"}

\* C25: when a chunk has been gathered a pacing delay is taken exactly when
\* some text is not yet dispatched, so none after the last chunk; a chunk
\* other than the first is dispatched only out of a delay; and a batch that
\* is done has taken one delay less than it had chunks.
C25_PacingDelays ==
    /\ [][(batch.pc = "awaiting" /\ batch'.pc # "awaiting") =>
              /\ batch'.pc \in Pacing <=> Dispatched(batch) < Len(batch.texts)
              /\ batch'.delays = batch.delays + (IF batch'.pc \in Pacing THEN 1 ELSE 0)]_vars
    /\ [][(batch'.pc = "awaiting" /\ batch.pc \notin {"awaiting", "idle", "warmup"}) =>
              /\ batch.pc \in Pacing
              /\ batch'.delays = batch.delays
              /\ Dispatched(batch') > Len(batch.results) + Len(batch.batchResults)]_vars
    /\ [](batch.pc = "done" /\ Len(batch.texts) > 0 =>
              batch.delays = ChunksOf(batch.client, Len(batch.texts)) - 1)

\* the delay between the first window of ten texts and the eleventh text
C25_Witness ==
    /\ batch.client = "hf"
    /\ batch.pc = "batchDelay"
    /\ Len(batch.results) = batchSize
    /\ Len(batch.texts) = batchSize + 1
    /\ batch.delays = 4

-----------------------------------------------------------------------------
(* Chunks as barriers (checked under SpecBatch) *)

\* the texts whose results the loop has gathered
Gathered(b) == Len(b.results) + Len(b.batchResults)

\* C37: chunks are barriers: the calls of a chunk are dispatched only when
\* every call of the chunks before it has resolved, retries and backoff
\* waits included; and the chunks are consecutive groups of at most 3 texts
\* that cover the input in its order.
C37_ChunksAreBarriers ==
    /\ [][(batch.pc = "awaiting" /\ batch' # batch /\ InFlight(batch) # {}) =>
              /\ batch'.pc = "awaiting"
              /\ Sources(batch'.promises) = Sources(batch.promises)
              /\ Gathered(batch') = Gathered(batch)]_vars
    /\ [][(batch'.pc = "awaiting" /\ batch.pc # "awaiting") =>
              /\ InFlight(batch) = {}
              /\ Gathered(batch') = Gathered(batch)]_vars
    /\ [](batch.pc = "awaiting" =>
              /\ Len(batch.promises) \in 1..3
              /\ Sources(batch.promises) =
                     slice(batch.texts, Gathered(batch),
                           Gathered(batch) + Len(batch.promises)))
    /\ [](batch.pc = "done" => Gathered(batch) = Len(batch.texts))

\* the second chunk in flight, one of its calls waiting to retry, after a
\* first chunk in which a call retried
C37_Witness ==
    /\ batch.pc = "awaiting"
    /\ Gathered(batch) = CONCURRENCY
    /\ Cardinality(InFlight(batch)) = 2
    /\ \E k \in InFlight(batch) : batch.promises[k].call.pc = "backoff"
    /\ \E k \in DOMAIN batch.results : batch.results[k].label \in FallbackLabels

-----------------------------------------------------------------------------
(* Stages of a run (checked under SpecPipeline) *)

StageRank(stage) ==
    CASE stage = "fetching" -> 1
      [] stage = "filtering" -> 2
      [] stage = "analyzing" -> 3
      [] stage = "storing" -> 4
      [] stage = "completed" -> 5

Stages(run) == [k \in DOMAIN run.notified |-> run.notified[k].stage]

\* C13: within one run the stages reported to the observer only move forward
\* along fetching, filtering, analyzing, storing, completed; a stage may
\* repeat, the run may jump to completed or to error, and no stage is
\* followed by an earlier one.
C13_StageOnlyMovesForward ==
    \A r \in Runs :
        \A i, j \in DOMAIN runs[r].notified :
            (/\ i < j
             /\ runs[r].notified[i].stage # "error"
             /\ runs[r].notified[j].stage # "error")
                => StageRank(runs[r].notified[i].stage) <= StageRank(runs[r].notified[j].stage)

\* a run that reported every stage up to completed, and one that jumped from
\* storing to error
C13_Witness ==
    /\ Stages(runs[1]) = <<"fetching", "filtering", "filtering", "analyzing",
                           "analyzing", "storing", "completed">>
    /\ Stages(runs[2]) = <<"fetching", "filtering", "filtering", "analyzing",
                           "analyzing", "storing", "error">>

-----------------------------------------------------------------------------
(* Outcome of a run (checked under SpecPipeline) *)

Last(seq) == seq[Len(seq)]

\* the run went past the classification of its cleaned records
Analyzed(run) == \E k \in DOMAIN run.notified : run.notified[k].stage = "analyzing"

\* C14: whatever the classification calls gave (any of them, or all, the
\* fallback), a run that classified goes on to storing; it ends in error only
\* when the insert is rejected, and otherwise in completed with progress 100
\* and one record per cleaned record.
C14_ClassificationNeverFailsRun ==
    \A r \in Runs :
        LET run == runs[r]
            n == Len(run.notified)
        IN  (Analyzed(run) /\ run.pc \notin {"analyzing", "released"}) =>
                /\ \E k \in DOMAIN run.notified : run.notified[k].stage = "storing"
                /\ Len(run.processedTweets) = Len(run.cleanedTweets)
                /\ run.pc = "thrown" =>
                       /\ Last(run.notified).stage = "error"
                       /\ run.notified[n - 1].stage = "storing"
                       /\ run.error.message[1] = "Failed to store processed tweets"
                /\ run.pc = "returned" =>
                       /\ Last(run.notified) = Progress("completed", 100, Undefined)
                       /\ Len(run.returned) = Len(run.cleanedTweets)
                       /\ \A k \in DOMAIN run.returned :
                              run.returned[k].original_tweet_id =
                                  run.cleanedTweets[k].tweet_id

\* a run of two cleaned records whose classifications all failed, completed
C14_Witness ==
    \E r \in Runs :
        /\ runs[r].pc = "returned"
        /\ Len(runs[r].returned) = 2
        /\ \A k \in DOMAIN runs[r].returned :
               /\ runs[r].returned[k].sentiment = "neutral"
               /\ runs[r].returned[k].confidence = 500
        /\ Last(runs[r].notified).progress = 100
        /\ Len(processedTweets) >= 2

\* C15: every failure of the storage layer during a run, the read of the raw
\* records in fetching as well as the insert in storing, ends the run with
\* stage error reported to the observer, the underlying message attached.
C15_StorageFailureReported ==
    \A r \in Runs :
        runs[r].pc = "thrown" =>
            /\ Len(runs[r].notified) > 0
            /\ Last(runs[r].notified).stage = "error"
            /\ Last(runs[r].notified).error # Undefined

\* the run reached the insert: storing was reported
Storing(run) == \E k \in DOMAIN run.notified : run.notified[k].stage = "storing"

\* C16: when the bulk insert of a run is rejected, the observer receives
\* stage error carrying the store's message, the run throws, the caller
\* receives no processed record and the processed table is left as it was;
\* the insert is one bulk call, issued at most once per run.
C16_RejectedInsert ==
    [][\A r \in Runs :
           /\ runs'[r].inserts <= 1
           /\ (runs[r].pc = "storing" /\ runs'[r].pc = "thrown") =>
                  /\ Last(runs'[r].notified) = Progress("error", 0, "insert rejected")
                  /\ runs'[r].error.message =
                         <<"Failed to store processed tweets", "insert rejected">>
                  /\ runs'[r].returned = <<>>
                  /\ processedTweets' = processedTweets
           /\ (runs[r].pc = "storing" /\ runs'[r].pc = "returned") =>
                  processedTweets' =
                      insert(processedTweets, runs[r].processedTweets)]_vars

\* a run whose insert of two rows was rejected
C16_Witness ==
    \E r \in Runs :
        /\ runs[r].pc = "thrown"
        /\ Storing(runs[r])
        /\ runs[r].inserts = 1
        /\ Len(runs[r].processedTweets) = 2
        /\ Len(processedTweets) = 0

\* the run is past its filtering stage: the date filter and the cleaning
Filtered(run) ==
    /\ run.pc \notin {"idle", "fetching", "released"}
    /\ \E k \in DOMAIN run.notified : run.notified[k].stage = "filtering"

\* C17: a run that has no record left after filtering (the date filter kept
\* none, or every kept record cleaned to empty text) goes directly to
\* completed: no analyzing and no storing is reported, no text is classified
\* and no insert is issued.
C17_NothingLeftGoesToCompleted ==
    \A r \in Runs :
        (Filtered(runs[r]) /\ Len(runs[r].cleanedTweets) = 0) =>
            /\ ~Analyzed(runs[r])
            /\ ~Storing(runs[r])
            /\ runs[r].inserts = 0
            /\ runs[r].pc = "returned"
            /\ Last(runs[r].notified).stage = "completed"

-----------------------------------------------------------------------------
(* The two tables (checked under SpecPage) *)

\* C18: in every state reachable through runs, repeated runs, reprocess and
\* clear, every processed record comes from a raw record and there are no
\* more processed records than raw ones: getProcessingStats gives
\* remainingTweets = totalTweets - processedTweets, never negative.
C18_ProcessedWithinRaw ==
    LET stats == getProcessingStats(rawTweets, processedTweets)
    IN  /\ \A k \in DOMAIN processedTweets :
               \E m \in DOMAIN rawTweets :
                   rawTweets[m].tweet_id = processedTweets[k].original_tweet_id
        /\ stats.remainingTweets = stats.totalTweets - stats.processedTweets
        /\ stats.remainingTweets >= 0

-----------------------------------------------------------------------------
(* The date filters (checked under SpecFilter) *)

\* the calendar year a date text is read as, 0 for what is no date
YearOf(dateStr) ==
    IF dateStr.shape = "iso" \/ (dateStr.shape = "at" /\ getMonthNumber(dateStr.monthName) # 0)
    THEN dateStr.year
    ELSE 0

\* C19: the date filter keeps a record if and only if its date text parses,
\* by the 'Month Day, Year at HH:MM AM/PM' shape or by generic parsing, to a
\* calendar year >= the cutoff year; a record whose date is missing or
\* unparseable is dropped.
C19_KeepsFromCutoffYear ==
    filtered.by # "none" =>
        LET eligible(tweet) == YearOf(tweet.Date) >= filtered.year
        IN  filtered.tweets = SelectSeq(rawTweets, eligible)

\* C20: at the turn of the year the filter is exact in every time zone: a
\* record dated January 1 of the cutoff year at 00:00 is kept and a record
\* dated December 31 of the year before at 23:59 is not.
C20_ExactAtYearBoundary ==
    filtered.by # "none" =>
        \A k \in DOMAIN rawTweets :
            LET kept == \E m \in DOMAIN filtered.tweets :
                            filtered.tweets[m] = rawTweets[k]
            IN  /\ rawTweets[k].Date = AtText("January", 1, filtered.year, 12, 0, "AM")
                       => kept
                /\ rawTweets[k].Date =
                           AtText("December", 31, filtered.year - 1, 11, 59, "PM")
                       => ~kept

-----------------------------------------------------------------------------
(* A request with an empty text (checked under Spec) *)

\* C34: a classification request whose text is empty is rejected before any
\* network call: no request for it goes to the external model. The only
\* request it may cause is the one to the service's own backend, which
\* answers 400 without calling the model.
C34_EmptyTextNotSent ==
    (call.client # "none" /\ call.text = "") =>
        /\ \A k \in DOMAIN call.reqs : call.reqs[k] = BACKEND_URL
        /\ (call.last.kind = "response" /\ call.last.body # HtmlBody) =>
               call.last.status = 400

-----------------------------------------------------------------------------
(* The reading of the model's answer (checked under Spec) *)

\* the call ended with a result read from an answer of the primary model
ReadFromPrimary(c) ==
    /\ c.client = "hf"
    /\ c.pc = "done"
    /\ OnPrimaryPath(c)
    /\ Usable(c, c.last)

\* the families of labels: the code of the primary model, or the name of the
\* family or its first three letters in the label, in any case
InFamily(label, code, short) ==
    toLowerCase(label) = code \/ short \in Needles(toLowerCase(label))

ReadFromArray(c) ==
    /\ c.client = "hf"
    /\ c.pc = "done"
    /\ c.last.kind = "response"
    /\ ok(c.last)
    /\ c.last.body.shape \in {"flat", "nested"}
    /\ c.last.body.items # <<>>

\* C24: when the model answers with an array of label/score elements, flat
\* or nested one level, the result is read from the element with the highest
\* score, and of several with the highest score from the first.
C24_HighestScoreFirstWins ==
    ReadFromArray(call) =>
        LET items == call.last.body.items
        IN  \E k \in DOMAIN items :
                /\ \A m \in DOMAIN items : items[m].score <= items[k].score
                /\ \A m \in 1..(k - 1) : items[m].score < items[k].score
                /\ call.result.label = items[k].label
                /\ call.result.score = items[k].score

-----------------------------------------------------------------------------
(* What a run hands to the classifier and to the insert (checked under
   SpecPipeline) *)

\* the raw records whose cleaned text is empty
CleansToEmpty(tweet) == Len(cleanTweetContent(tweet.Content)) = 0

\* C22: every text a run hands to the classifier is non-empty, and a record
\* whose cleaned text is empty has no text among them and no row among the
\* rows the run prepares or the store holds.
C22_OnlyNonEmptyTextsClassified ==
    /\ \A r \in Runs :
           /\ \A k \in DOMAIN runs[r].texts : Len(runs[r].texts[k]) > 0
           /\ Len(runs[r].texts) = Len(runs[r].cleanedTweets)
           /\ \A k \in DOMAIN runs[r].cleanedTweets :
                  ~CleansToEmpty(runs[r].cleanedTweets[k])
           /\ \A k \in DOMAIN runs[r].processedTweets :
                  /\ Len(runs[r].processedTweets[k].processed_content) > 0
                  /\ \A j \in DOMAIN rawTweets :
                         rawTweets[j].tweet_id =
                             runs[r].processedTweets[k].original_tweet_id
                         => ~CleansToEmpty(rawTweets[j])
    /\ \A k \in DOMAIN processedTweets :
           /\ Len(processedTweets[k].processed_content) > 0
           /\ \A j \in DOMAIN rawTweets :
                  rawTweets[j].tweet_id = processedTweets[k].original_tweet_id
                  => ~CleansToEmpty(rawTweets[j])

\* a run done with a table of two records of the year, one of which cleans
\* to the empty text: one text was classified and one row stored
C22_Witness ==
    /\ Len(rawTweets) = 2
    /\ \A j \in DOMAIN rawTweets : isRecent(rawTweets[j])
    /\ \E j \in DOMAIN rawTweets : CleansToEmpty(rawTweets[j])
    /\ \E r \in Runs :
           /\ runs[r].kind = "processTweetsDirectly"
           /\ runs[r].pc = "returned"
           /\ Len(runs[r].texts) = 1
           /\ Len(runs[r].processedTweets) = 1
    /\ Len(processedTweets) = 1

\* C27: no step of a run of processTweetsDirectly or processTweets, from
\* its start to completed, to error or to the rejection of its promise,
\* changes the raw table.
C27_RawTableUntouched ==
    [][runs' # runs => rawTweets' = rawTweets]_vars

\* a run that ended in error after another that completed, the table of two
\* raw records as it was
C27_Witness ==
    /\ Len(rawTweets) = 2
    /\ Len(processedTweets) > 0
    /\ \A k \in DOMAIN rawTweets : rawTweets[k].tweet_id = k
    /\ \E r \in Runs :
           /\ runs[r].pc = "thrown"
           /\ Last(runs[r].notified).stage = "error"

\* the run has built the rows of its insert and still holds them
HoldsRows(run) == run.inserts > 0 /\ run.pc # "released"

\* C28: the rows a run hands to the insert are as many as its cleaned
\* records, and the i-th row has the tweet_id and the cleaned text of the i-th
\* cleaned record, which is the i-th text given to the classifier, and the
\* sentiment and the confidence of the i-th result.
C28_RowsMatchCleanedRecords ==
    \A r \in Runs :
        HoldsRows(runs[r]) =>
            LET run == runs[r]
            IN  /\ Len(run.processedTweets) = Len(run.cleanedTweets)
                /\ Len(run.sentimentResults) = Len(run.texts)
                /\ Len(run.texts) = Len(run.cleanedTweets)
                /\ \A i \in DOMAIN run.processedTweets :
                       /\ run.processedTweets[i].original_tweet_id =
                              run.cleanedTweets[i].tweet_id
                       /\ run.processedTweets[i].processed_content =
                              run.cleanedTweets[i].cleanedContent
                       /\ run.texts[i] = run.cleanedTweets[i].cleanedContent
                       /\ run.processedTweets[i].sentiment =
                              run.sentimentResults[i].sentiment
                       /\ run.processedTweets[i].confidence =
                              run.sentimentResults[i].confidence

\* a run at its insert with two rows, the first classified positive, the
\* second with the fallback
C28_Witness ==
    \E r \in Runs :
        /\ runs[r].pc = "storing"
        /\ Len(runs[r].processedTweets) = 2
        /\ runs[r].processedTweets[1].sentiment = "positive"
        /\ runs[r].processedTweets[2].confidence = 500
        /\ runs[r].processedTweets[1].original_tweet_id
               # runs[r].processedTweets[2].original_tweet_id

\* C29: the tweet_date of every row a run builds is the parsed date of its
\* record, the ISO text parseTweetDate returns, and the current time only
\* when parseTweetDate returns null.
C29_TweetDateIsParsedDate ==
    \A r \in Runs :
        HoldsRows(runs[r]) =>
            \A i \in DOMAIN runs[r].processedTweets :
                LET parsedDate == parseTweetDate(runs[r].cleanedTweets[i].Date)
                IN  runs[r].processedTweets[i].tweet_date =
                        IF parsedDate # null THEN parsedDate ELSE [shape |-> "now"]

\* the percentages the schedule allows for a stage
Band(stage) ==
    CASE stage = "fetching"  -> {10}
      [] stage = "filtering" -> 20..30
      [] stage = "analyzing" -> 30..80
      [] stage = "storing"   -> {90}
      [] stage = "completed" -> {100}
      [] OTHER               -> 0..100

\* C32: every notification's percentage lies in the band of its stage
\* (fetching 10, filtering 20-30, analyzing 30-80, storing 90, completed 100),
\* and in a run that ended in completed the percentages never decrease and
\* the last is 100.
C32_ProgressSchedule ==
    \A r \in Runs :
        LET notified == runs[r].notified
        IN  /\ \A k \in DOMAIN notified : notified[k].progress \in Band(notified[k].stage)
            /\ (notified # <<>> /\ Last(notified).stage = "completed") =>
                   /\ Last(notified).progress = 100
                   /\ \A k \in 1..(Len(notified) - 1) :
                          notified[k].progress <= notified[k + 1].progress

-----------------------------------------------------------------------------
(* Polling after the trigger (checked under SpecPoll) *)

-----------------------------------------------------------------------------
(* The hour of a parsed date (checked under SpecParse) *)

\* the hour of the day, in UTC, of the instant an ISO string denotes
getUTCHours(iso) == (iso.time % (24 * 60)) \div 60

\* the hour the text states, on the 24-hour clock
StatedHour(dateStr) ==
    CASE dateStr.hour = 12 /\ dateStr.ampm = "AM" -> 0
      [] dateStr.hour = 12 /\ dateStr.ampm = "PM" -> 12
      [] dateStr.ampm = "AM" -> dateStr.hour
      [] OTHER -> dateStr.hour + 12

\* C31: the date parsed from 'Month Day, Year at HH:MM AM/PM' has hour 0 for
\* 12 AM, 12 for 12 PM, h for another h AM and h + 12 for another h PM, on the
\* day and at the minute the text states; the hour lies in 0..23, and two
\* texts differing in the hour or in AM/PM give different hours.
C31_TwelveHourClock ==
    /\ parsed.called =>
           /\ parsed.result # null
           /\ getUTCHours(parsed.result) = StatedHour(parsed.dateStr)
           /\ getUTCHours(parsed.result) \in 0..23
           /\ parsed.result.time =
                  UTC(parsed.dateStr.year, getMonthNumber(parsed.dateStr.monthName),
                      parsed.dateStr.day, 0, 0)
                      + 60 * StatedHour(parsed.dateStr) + parsed.dateStr.minute
    /\ \A other \in ClockTexts :
           (other.hour # parsed.dateStr.hour \/ other.ampm # parsed.dateStr.ampm) =>
               getUTCHours(parseTweetDate(other))
                   # getUTCHours(parseTweetDate(parsed.dateStr))

\* '12:59 AM' on the last day of the year parsed to 00:59 of that day
C31_Witness ==
    /\ parsed.called
    /\ parsed.dateStr = AtText("December", 31, 2024, 12, 59, "AM")
    /\ parsed.result = Instant(UTC(2024, 12, 31, 0, 59))

-----------------------------------------------------------------------------
(* The page that is rawPage (checked under SpecFetch) *)

\* C33: getRawTweets(limit, offset) returns at most limit records, whichever
\* of its queries gave the result.
C33_BoundedPage ==
    (rawPage.called /\ rawPage.ok) => Len(rawPage.rows) <= rawPage.limit

-----------------------------------------------------------------------------
(* The end of a run (checked under FairRun) *)

Ended(r) ==
    /\ runs[r].pc \in {"returned", "thrown", "released"}
    /\ runs[r].notified # <<>>
    /\ Last(runs[r].notified).stage \in {"completed", "error"}

-----------------------------------------------------------------------------
(* The last notification of a run (checked under SpecPipeline) *)

\* C36: completed and error are terminal: the observer of a run receives at
\* most one notification with stage completed or error, and none of any
\* stage after it.
C36_TerminalStages ==
    \A r \in Runs :
        \A k \in DOMAIN runs[r].notified :
            runs[r].notified[k].stage \in {"completed", "error"} =>
                k = Len(runs[r].notified)

\* a run ended after a rejected insert with error as its last notification,
\* and the run after it ended in completed
C36_Witness ==
    \E r, q \in Runs :
        /\ runs[r].pc \in {"thrown", "released"}
        /\ runs[r].notified # <<>>
        /\ Last(runs[r].notified).stage = "error"
        /\ runs[q].pc = "returned"
        /\ Last(runs[q].notified).stage = "completed"
        /\ Len(runs[q].notified) > 2

-----------------------------------------------------------------------------
(* Clearing the two tables (checked under SpecClear) *)

\* C38: clearAllTweets deletes the processed records before the raw records
\* and never throws: when the delete of the processed records fails the raw
\* table is left as it was and the result is success false, and success true
\* is returned only when both deletes succeeded.
C38_ClearAllTweets ==
    [][ClearAllTweetsReturns =>
          /\ clearResult'.called /\ ~clearResult'.thrown
          /\ clearResult'.success =>
                 /\ rawTweets' = <<>> /\ processedTweets' = <<>>
                 /\ clearResult'.message[1] \notin
                        {"Failed to clear processed tweets", "Failed to clear raw tweets"}
          /\ ~clearResult'.success =>
                 /\ clearResult'.message[1] \in
                        {"Failed to clear processed tweets", "Failed to clear raw tweets"}
                 /\ rawTweets' = rawTweets
          /\ clearResult'.message[1] = "Failed to clear processed tweets" =>
                 /\ ~clearResult'.success
                 /\ processedTweets' = processedTweets
          /\ clearResult'.message[1] = "Failed to clear raw tweets" =>
                 /\ ~clearResult'.success
                 /\ processedTweets' = <<>>]_vars

\* the delete of the processed records failed with rows in both tables
C38_Witness ==
    /\ clearResult.called
    /\ ~clearResult.success
    /\ clearResult.message[1] = "Failed to clear processed tweets"
    /\ rawTweets # <<>>
    /\ processedTweets # <<>>

-----------------------------------------------------------------------------
(* The state of the useProcessing hook (checked under SpecHook) *)

\* C39: in every state the operations of useProcessing can reach, in any
\* order, progress is non-null only while isProcessing is true; and after
\* setError isProcessing is false, progress is null and error is set.
C39_ProgressOnlyWhileProcessing ==
    /\ [](processing.progress # null => processing.isProcessing)
    /\ [][SetError => /\ ~processing'.isProcessing
                      /\ processing'.progress = null
                      /\ processing'.error # null]_vars

-----------------------------------------------------------------------------
(* The cleaning of a text (checked under SpecClean) *)

\* C21: cleanTweetContent is idempotent: cleaning a cleaned text gives the
\* cleaned text again.
C21_CleaningIdempotent ==
    \A k \in DOMAIN cleaned.results : cleaned.results[k] = cleaned.results[1]

\* C30: the cleaned text contains no URL (no 'http://' or 'https://'), no
\* mention ('@' directly followed by a word character) and no '#', and no
\* two of '.', '!', '?' in a row.
C30_CleanedTextContent ==
    Len(cleaned.results) > 0 =>
        LET text == cleaned.results[1]
        IN  \A i \in DOMAIN text :
                /\ \A scheme \in Schemes : ~StartsWith(text, i, scheme)
                /\ ~(text[i] = "@" /\ i < Len(text) /\ text[i + 1] \in WordCharacters)
                /\ text[i] # "#"
                /\ ~(text[i] \in Punctuation /\ i < Len(text)
                         /\ text[i + 1] \in Punctuation)

====
